---- MODULE Spec2Model ----
(***************************************************************************)
(* Model of rejected.consumer.Consumer: the per-message execution engine   *)
(* (Consumer.execute), the finish hook, and the two republish helpers.     *)
(*                                                                         *)
(* One behaviour is one consumer instance, configured at construction,     *)
(* executing a stream of delivered messages one after the other.           *)
(***************************************************************************)
EXTENDS Integers, Sequences, FiniteSets, TLC

(* ---- bounds of the model ---- *)
MaxRetries == 2          \* largest configured error_max_retry
MaxCounter == 3          \* largest integer retry counter on a delivered message
MaxFinishCalls == 2      \* finish() calls user code makes within one callback
MaxHandles == 3          \* confirmation futures registered, all connections
MaxStats == 2            \* stats calls recorded in one measurement
MaxReads == 2            \* reads of body within one execution
MaxClock == 3            \* latest reading of time.time()

(* ---- values ---- *)
None == "None"

\* rejected.data outcome values, as used by execute
MESSAGE_ACK == "ACK"
MESSAGE_DROP == "DROP"
MESSAGE_EXCEPTION == "MESSAGE_EXCEPTION"
CONSUMER_EXCEPTION == "CONSUMER_EXCEPTION"
CONFIGURATION_EXCEPTION == "CONFIGURATION_EXCEPTION"
PROCESSING_EXCEPTION == "PROCESSING_EXCEPTION"
UNHANDLED_EXCEPTION == "UNHANDLED_EXCEPTION"
RABBITMQ_EXCEPTION == "BROKER_EXCEPTION"

Outcomes ==
    {MESSAGE_ACK, MESSAGE_DROP, MESSAGE_EXCEPTION, CONSUMER_EXCEPTION,
     CONFIGURATION_EXCEPTION, PROCESSING_EXCEPTION, UNHANDLED_EXCEPTION,
     RABBITMQ_EXCEPTION}

\* header keys
PROCESSING_EXCEPTIONS == "X-Processing-Exceptions"
X_PROCESSING_EXCEPTION == "X-Processing-Exception"
X_DROPPED_BY == "X-Dropped-By"
X_DROPPED_REASON == "X-Dropped-Reason"
X_DROPPED_TIMESTAMP == "X-Dropped-Timestamp"
X_ORIGINAL_EXCHANGE == "X-Original-Exchange"
X_OTHER == "X-Other"     \* a header the engine knows nothing about

ERROR_EXCHANGE == "errors"
name == "Consumer"       \* Consumer.name: the class name

(* Header values.  A retry counter found on the wire is an integer, a      *)
(* non-integral number (num/den) or a string; the text of a numeric string *)
(* is kept in num.                                                         *)
IntVal(n) == [kind |-> "int", num |-> n, den |-> 1]
FloatVal(n, d) == [kind |-> "float", num |-> n, den |-> d]
StrVal(n) == [kind |-> "str", num |-> n, den |-> 1]
Text(s) == [kind |-> "text", text |-> s]

CounterValues ==
    {IntVal(n) : n \in 0..MaxCounter} \cup {FloatVal(5, 2), StrVal(3)}

\* a dict: a function from a finite set of keys
EmptyDict == [k \in {} |-> None]
Put(d, k, v) == [x \in (DOMAIN d) \cup {k} |-> IF x = k THEN v ELSE d[x]]

\* the exceptions user code raises, by class
RejectedKinds ==
    {"ConfigurationException", "ConsumerException", "MessageException",
     "ProcessingException"}
ExceptionKinds ==
    RejectedKinds \cup {"RabbitMQException", "NotImplementedError", "Exception"}
Metrics == {None, "metric"}
NoException == [kind |-> None, metric |-> None]
Exc(k, m) == [kind |-> k, metric |-> m]
Raisable ==
    {Exc(k, m) : k \in RejectedKinds, m \in Metrics}
        \cup {Exc(k, None) : k \in ExceptionKinds \ RejectedKinds}


(* ---- rejected.data.Message, as far as the engine reads it ---- *)
\* a body: a str, or a structured value that a codec must serialize. data
\* names the content (EMPTY for b'' and for an empty mapping), serialized the
\* content type it is written in, compressed the module that compressed it;
\* reader marks a csv.DictReader over the content
TextBody ==
    [is_string |-> TRUE, data |-> "reply", serialized |-> None,
     compressed |-> None, reader |-> FALSE]
StructuredBody ==
    [is_string |-> FALSE, data |-> "reply", serialized |-> None,
     compressed |-> None, reader |-> FALSE]

\* self._message_body = None
NoBody ==
    [is_string |-> FALSE, data |-> None, serialized |-> None,
     compressed |-> None, reader |-> FALSE]

\* the bytes of a delivery
RawBody(d) == [TextBody EXCEPT !.data = d]

TypeValues == {None, "A", "B"}     \* properties.type
Envelopes ==
    {[exchange |-> "ex1", routing_key |-> "rk1", body |-> RawBody("body1")],
     [exchange |-> "ex2", routing_key |-> "rk2", body |-> RawBody("body2")]}

\* properties.headers of a delivered message; None and {} are both the
\* empty dict (every read in the engine is "headers or dict()")
HeaderMaps ==
    {EmptyDict, Put(EmptyDict, X_OTHER, Text("other"))}
        \cup {Put(Put(EmptyDict, X_OTHER, Text("other")), PROCESSING_EXCEPTIONS, v) :
                v \in CounterValues}

\* the connections handed to the consumer by set_connection
ConnectionNames == {"c1", "c2"}

Messages ==
    {[exchange |-> e.exchange, routing_key |-> e.routing_key, body |-> e.body,
      connection |-> "c1",
      properties |-> [type |-> t, headers |-> h, reply_to |-> None,
                      message_id |-> None, content_type |-> None,
                      content_encoding |-> None]] :
        e \in Envelopes, t \in TypeValues, h \in HeaderMaps}

NoMessage ==
    [exchange |-> None, routing_key |-> None, body |-> NoBody,
     connection |-> None,
     properties |-> [type |-> None, headers |-> EmptyDict, reply_to |-> None,
                     message_id |-> None, content_type |-> None,
                     content_encoding |-> None]]

\* messages that ask for a reply: reply_to and message_id set or not
ReplyMessages ==
    {[exchange |-> "ex1", routing_key |-> "rk1", body |-> RawBody("body1"),
      connection |-> "c1",
      properties |-> [type |-> None, headers |-> EmptyDict, reply_to |-> r,
                      message_id |-> i, content_type |-> None,
                      content_encoding |-> None]] :
        r \in {None, "inbound"}, i \in {None, "mid"}}

\* Consumer.headers
headers(m) == m.properties.headers

\* Consumer.message_type (the property: the delivered message's type)
message_type_property(m) == m.properties.type

(* ---- the accepted type: a single value or a collection ---- *)
AcceptedTypes ==
    {[collection |-> FALSE, types |-> {}],          \* MESSAGE_TYPE = None
     [collection |-> FALSE, types |-> {"A"}],       \* MESSAGE_TYPE = 'A'
     [collection |-> TRUE, types |-> {"A", "B"}]}   \* MESSAGE_TYPE = ['A', 'B']

\* truth value of self._message_type
Truthy(accepted) == accepted.types # {}

\* execute, were the type check left out
message_supported_always(accepted, t) == TRUE

\* message_supported, were a collection compared like a single value
message_supported_equality(accepted, t) == accepted.types = {t}

\* the value execute computes for message_supported
message_supported(accepted, t) ==
    IF accepted.collection
    THEN t \in accepted.types
    ELSE accepted.types = {t}

(* ---- poison-message check ---- *)
\* ">" in place of ">="
Greater(v, threshold) ==
    IF v.kind = "str"
    THEN {"TypeError", "true"}
    ELSE IF v.num > threshold * v.den THEN {"true"} ELSE {"false"}

\* the results "value >= threshold" can have: a number compares by value; a
\* string against an int raises TypeError on Python 3 and is greater than
\* every number on Python 2
GreaterEqual(v, threshold) ==
    IF v.kind = "str"
    THEN {"TypeError", "true"}
    ELSE IF v.num >= threshold * v.den THEN {"true"} ELSE {"false"}

\* execute, were the check of the retry counter left out
PoisonCheckPasses(h, max_retry) == {"pass"}

\* the results of the check at the top of the poison filter: "pass" lets the
\* message through, "drop" drops it
PoisonCheck(h, max_retry) ==
    IF max_retry = 0 \/ PROCESSING_EXCEPTIONS \notin DOMAIN h
    THEN {"pass"}
    ELSE {IF r = "true" THEN "drop" ELSE IF r = "false" THEN "pass" ELSE r :
            r \in GreaterEqual(h[PROCESSING_EXCEPTIONS], max_retry)}

(* ---- republish helpers ---- *)
\* RepublishesDropped without the test of self._drop_exchange
RepublishesDroppedAlways(exchange) == TRUE

\* a dropped message is republished only when a drop exchange is set
RepublishesDropped(exchange) == exchange # None

Times == {1, 2}
IsoFormat(t) == [kind |-> "iso", t |-> t]
Format(fmt, arg) == [kind |-> "format", text |-> fmt, arg |-> arg]

\* DroppedHeaders, were the headers dict always started empty
DroppedHeadersFresh(m, reason, now) ==
    LET h1 == Put(EmptyDict, X_DROPPED_BY, Text(name))
        h2 == Put(h1, X_DROPPED_REASON, reason)
        h3 == Put(h2, X_DROPPED_TIMESTAMP, IsoFormat(now))
    IN Put(h3, X_ORIGINAL_EXCHANGE, Text(m.exchange))

\* headers _republish_dropped_message publishes
DroppedHeaders(m, reason, now) ==
    LET h0 == headers(m)
        h1 == Put(h0, X_DROPPED_BY, Text(name))
        h2 == Put(h1, X_DROPPED_REASON, reason)
        h3 == Put(h2, X_DROPPED_TIMESTAMP, IsoFormat(now))
    IN Put(h3, X_ORIGINAL_EXCHANGE, Text(m.exchange))

\* Increment, were the counter left as it came
IncrementKeeps(v) == v

\* Increment, were the counter always set to 1
IncrementResets(v) == IntVal(1)

\* Increment, were the TypeError not caught: the value is kept
IncrementUncaught(v) == IF v.kind = "str" THEN v ELSE [v EXCEPT !.num = @ + v.den]

\* "+= 1" on a header value; TypeError is caught and resets the counter
Increment(v) ==
    IF v.kind = "str" THEN IntVal(1) ELSE [v EXCEPT !.num = @ + v.den]

\* _republish_processing_error, were it to count under the key without "X-"
ProcessingErrorHeadersUnprefixed(m, error) ==
    LET h0 == headers(m)
        h1 == IF error # None THEN Put(h0, X_PROCESSING_EXCEPTION, Text(error)) ELSE h0
    IN Put(h1, "Processing-Exceptions", IntVal(1))

\* headers _republish_processing_error publishes
ProcessingErrorHeaders(m, error) ==
    LET h0 == headers(m)
        h1 == IF error # None THEN Put(h0, X_PROCESSING_EXCEPTION, Text(error)) ELSE h0
    IN IF PROCESSING_EXCEPTIONS \notin DOMAIN h1
       THEN Put(h1, PROCESSING_EXCEPTIONS, IntVal(1))
       ELSE Put(h1, PROCESSING_EXCEPTIONS, Increment(h1[PROCESSING_EXCEPTIONS]))

\* dict(self._message.properties) is a shallow copy: a non-empty headers dict
\* is shared with the inbound message, an empty or missing one is replaced
AfterHeaderWrite(m, h) ==
    IF headers(m) = EmptyDict THEN m ELSE [m EXCEPT !.properties.headers = h]

\* the arguments of one basic_publish call
Publish(exchange, m, h) ==
    [exchange |-> exchange, routing_key |-> m.routing_key, body |-> m.body,
     properties |-> [m.properties EXCEPT !.headers = h]]

(* ---- exception handlers of execute ---- *)
\* HandlerOutcome without the clause for RabbitMQException
HandlerOutcomeNoBroker(k) ==
    IF k = "ConfigurationException" THEN CONFIGURATION_EXCEPTION
    ELSE IF k = "ConsumerException" THEN CONSUMER_EXCEPTION
    ELSE IF k = "MessageException" THEN MESSAGE_EXCEPTION
    ELSE IF k = "ProcessingException" THEN PROCESSING_EXCEPTION
    ELSE UNHANDLED_EXCEPTION

\* the Outcome of the except clause that catches an exception of class k
HandlerOutcome(k) ==
    IF k = "RabbitMQException" THEN RABBITMQ_EXCEPTION
    ELSE IF k = "ConfigurationException" THEN CONFIGURATION_EXCEPTION
    ELSE IF k = "ConsumerException" THEN CONSUMER_EXCEPTION
    ELSE IF k = "MessageException" THEN MESSAGE_EXCEPTION
    ELSE IF k = "ProcessingException" THEN PROCESSING_EXCEPTION
    ELSE IF k = "NotImplementedError" THEN UNHANDLED_EXCEPTION
    ELSE UNHANDLED_EXCEPTION

\* LogsException, were the catch-all clause to log without _log_exception
LogsExceptionNotCatchAll(k) ==
    k \in {"ConfigurationException", "NotImplementedError"}

\* the except clauses that report through _log_exception
LogsException(k) ==
    k \in {"ConfigurationException", "NotImplementedError", "Exception"}

\* the 'exception' tag the handler sets
ExceptionTag(k) == IF k = "Exception" THEN "UnhandledException" ELSE k

\* the tags the handler leaves on the measurement
HandlerTags(tags, e) ==
    LET t1 == Put(tags, "exception", ExceptionTag(e.kind))
    IN IF e.kind \in RejectedKinds /\ e.metric # None
       THEN Put(t1, "error", e.metric)
       ELSE t1

\* AfterPrepare without the test of self._finished
AfterPrepareAlwaysProcess(fin) == "call_process"

\* where execute goes once prepare has completed
AfterPrepare(fin) == IF fin THEN "finally" ELSE "call_process"

(* ======================================================================= *)
(* Publishing: publish_message, rpc_reply and publisher confirmations       *)
(* ======================================================================= *)
\* Property values and arguments are strings; EMPTY is '' and EPOCH is the
\* integer 0, the values besides None that Python takes for false.
EMPTY == ""
EPOCH == "0"

\* truth value of an argument or a property
TruthyValue(v) == v \notin {None, EMPTY, EPOCH}

\* x or y
Or(x, y) == IF TruthyValue(x) THEN x ELSE y

\* str(uuid.uuid4()) and int(time.time()) in rpc_reply
FreshId == "uuid"
Now == "now"

\* the properties dict of a publish; a key that is missing reads as None,
\* and _get_pika_properties leaves out the keys whose value is None
NoProperties ==
    [app_id |-> None, correlation_id |-> None, message_id |-> None,
     timestamp |-> None, content_type |-> None, content_encoding |-> None]

\* properties a caller of rpc_reply supplies: each reply property missing,
\* false or set
ReplyProperties ==
    {[NoProperties EXCEPT !.app_id = a, !.correlation_id = c,
                          !.message_id = i, !.timestamp = t] :
        a \in {None, EMPTY, "app"}, c \in {None, "cid"},
        i \in {None, "own"}, t \in {None, EPOCH, "then"}}

\* properties that declare a content type and a content encoding
CodecProperties ==
    {[NoProperties EXCEPT !.content_type = ct, !.content_encoding = ce] :
        ct \in {None, "application/json"}, ce \in {None, "gzip"}}

\* truth value of a body: None, b'' and an empty structured value are false
TruthyBody(b) ==
    \/ b.serialized # None
    \/ b.compressed # None
    \/ b.reader
    \/ b.data \notin {None, EMPTY}

\* SmartConsumer._CODEC_MAP: content encoding -> module
CODEC_MAP ==
    [e \in {"bzip2", "gzip", "zlib"} |-> IF e = "bzip2" THEN "bz2" ELSE "zlib"]

\* the keys of SmartConsumer._SERIALIZATION_MAP
SERIALIZATION_MAP ==
    {"application/json", "application/msgpack", "application/pickle",
     "application/x-pickle", "application/x-plist",
     "application/vnd.python.pickle", "application/x-vnd.python.pickle",
     "text/csv", "text/html", "text/xml", "text/yaml"}

\* SmartConsumer._IGNORE_TYPES: unregistered types that are not logged
IGNORE_TYPES == {"application/octet-stream", "text/plain"}

\* the enabled flag of an entry: __init__ disables the types whose packages
\* are not installed (here: none of them is)
Enabled(key) == key \notin {"application/msgpack", "text/html", "text/xml"}

\* a result of encoding or decoding: the body, or the exception raised
Ok(body) == [raised |-> None, body |-> body]
Fails(k, body) == [raised |-> k, body |-> body]

\* _serialize, were it to dump under any content type
SerializeAnything(body, ct) ==
    Ok([body EXCEPT !.is_string = TRUE, !.serialized = ct])

\* _serialize, were it to overlook the enabled flag
SerializeDisabled(body, ct) ==
    IF ct \notin SERIALIZATION_MAP
    THEN Fails("ValueError", body)
    ELSE Ok([body EXCEPT !.is_string = TRUE, !.serialized = ct])

\* SmartConsumer._serialize: the str the codec of content type ct dumps, or
\* ValueError for a content type that is not in the map or is disabled
Serialize(body, ct) ==
    IF ct \notin SERIALIZATION_MAP \/ ~Enabled(ct)
    THEN Fails("ValueError", body)
    ELSE Ok([body EXCEPT !.is_string = TRUE, !.serialized = ct])

\* SmartConsumer._compress: value.encode('utf-8') of a value that is not
\* bytes, then the codec; a structured value has no encode method
Compress(body, codec) ==
    IF body.is_string
    THEN Ok([body EXCEPT !.compressed = codec])
    ELSE Fails("AttributeError", body)

\* the body SmartConsumer.publish_message hands to Consumer.publish_message,
\* or the exception its encoding raises
SmartBody(properties, body, no_serialization, no_encoding) ==
    LET serialized ==
            IF /\ ~TruthyValue(no_serialization)
               /\ ~body.is_string
               /\ TruthyValue(properties.content_type)
            THEN Serialize(body, properties.content_type)
            ELSE Ok(body)
    IN IF serialized.raised # None
       THEN serialized
       ELSE IF /\ ~TruthyValue(no_encoding)
               /\ properties.content_encoding \in DOMAIN CODEC_MAP
            THEN Compress(serialized.body,
                          CODEC_MAP[properties.content_encoding])
            ELSE serialized

(* ---- SmartConsumer.body: decoding the inbound message ---- *)
\* decompress, were it to hand the bytes back as they are
DecompressNothing(body, module) == Ok(body)

\* module.decompress of a body that module did not compress raises
Decompress(body, module) ==
    IF body.compressed = module
    THEN Ok([body EXCEPT !.compressed = None])
    ELSE Fails("CodecError", body)

\* _maybe_decompress_body, were it to leave every body as it is
MaybeDecompressNever(m) == [raised |-> None, body |-> m.body, calls |-> 0]

\* _maybe_decompress_body: calls counts the decompress calls made
MaybeDecompress(m) ==
    LET encoding == m.properties.content_encoding
    IN IF TruthyValue(encoding) /\ encoding \in DOMAIN CODEC_MAP
       THEN [raised |-> Decompress(m.body, CODEC_MAP[encoding]).raised,
             body |-> Decompress(m.body, CODEC_MAP[encoding]).body,
             calls |-> 1]
       ELSE [raised |-> None, body |-> m.body, calls |-> 0]

\* _maybe_invoke_serialization(value, 'load', key): json.loads, yaml.load,
\* _load_csv, which returns a csv.DictReader; anything the codec raises
\* becomes a MessageException
Load(body, key) ==
    IF body.serialized = key /\ body.compressed = None
    THEN Ok([body EXCEPT !.is_string = FALSE, !.serialized = None,
                         !.reader = (key = "text/csv")])
    ELSE Fails("MessageException", body)

\* _maybe_deserialize_body, were a disabled or unknown type an error
MaybeDeserializeStrict(m, body) ==
    LET ct == m.properties.content_type
    IN IF ~TruthyValue(ct)
       THEN [raised |-> None, body |-> body, calls |-> 0]
       ELSE IF ct \notin SERIALIZATION_MAP \/ ~Enabled(ct)
            THEN [raised |-> "MessageException", body |-> body, calls |-> 0]
            ELSE [raised |-> Load(body, ct).raised, body |-> Load(body, ct).body,
                  calls |-> 1]

\* _maybe_deserialize_body on the decompressed body
MaybeDeserialize(m, body) ==
    LET ct == m.properties.content_type
    IN IF ~TruthyValue(ct) \/ ct \notin SERIALIZATION_MAP \/ ~Enabled(ct)
       THEN [raised |-> None, body |-> body, calls |-> 0]
       ELSE [raised |-> Load(body, ct).raised, body |-> Load(body, ct).body,
             calls |-> 1]


\* the parameters of publish_message as a call binds them; Consumer has no
\* no_serialization and no_encoding parameters
KeywordCall(x, rk, properties, body, connection) ==
    [exchange |-> x, routing_key |-> rk, properties |-> properties,
     body |-> body, no_serialization |-> None, no_encoding |-> None,
     channel |-> None, connection |-> connection]

\* publish_message(exchange, routing_key, properties, body, fifth): the fifth
\* positional parameter is channel in Consumer, no_serialization in
\* SmartConsumer
PositionalCall(is_smart, x, rk, properties, body, fifth) ==
    IF is_smart
    THEN [KeywordCall(x, rk, properties, body, None)
            EXCEPT !.no_serialization = fifth]
    ELSE [KeywordCall(x, rk, properties, body, None) EXCEPT !.channel = fifth]

\* _publisher_confirmation_future, were it to track every publish
TracksConfirmationAlways(conn) == TRUE

\* _publisher_confirmation_future creates and registers a future only on a
\* connection with publisher confirmations
TracksConfirmation(conn) == conn.publisher_confirmations

\* a call that raises k: nothing is published
Raises(k) ==
    [raised |-> k, connection |-> None, exchange |-> None,
     routing_key |-> None, properties |-> NoProperties, body |-> TextBody,
     mandatory |-> FALSE, future |-> FALSE]

\* Consumer.publish_message after _publish_connection: the basic_publish it
\* makes and whether it returns a future
BasicPublish(conns, key, call, body) ==
    [raised |-> None, connection |-> key, exchange |-> call.exchange,
     routing_key |-> call.routing_key, properties |-> call.properties,
     body |-> body, mandatory |-> conns[key].publisher_confirmations,
     future |-> TracksConfirmation(conns[key])]

\* _publish_connection, were it to overlook a closed channel
NotConnectedIgnoresChannel(conn) == ~conn.is_connected

\* _publish_connection: the connection is down or its channel is closed
NotConnected(conn) == ~conn.is_connected \/ conn.channel_is_closed

\* publish_message of Consumer or SmartConsumer, with _publish_connection
PublishMessage(is_smart, conns, m, call) ==
    LET encoded == IF is_smart
                   THEN SmartBody(call.properties, call.body,
                                  call.no_serialization, call.no_encoding)
                   ELSE [raised |-> None, body |-> call.body]
        key == Or(Or(call.channel, call.connection), m.connection)
    IN IF encoded.raised # None
       THEN Raises(encoded.raised)
       ELSE IF key \notin DOMAIN conns
            THEN Raises("ValueError")
            ELSE IF NotConnected(conns[key])
                 THEN Raises("RabbitMQException")
                 ELSE BasicPublish(conns, key, call, encoded.body)

\* rpc_reply, were it to publish without a routing key
ReplyToMissingNever(explicit, inbound) == FALSE

\* the first test of rpc_reply
ReplyToMissing(explicit, inbound) == explicit = None /\ inbound = None

\* rpc_reply, were it to overwrite what the caller supplied
RpcReplyPropertiesOverwrite(properties, m) ==
    [properties EXCEPT
        !.app_id = name,
        !.correlation_id = Or(m.properties.message_id, @),
        !.message_id = FreshId,
        !.timestamp = Now]

\* the properties rpc_reply publishes
RpcReplyProperties(properties, m) ==
    [properties EXCEPT
        !.app_id = IF ~TruthyValue(@) THEN name ELSE @,
        !.correlation_id =
            IF ~TruthyValue(@) /\ TruthyValue(m.properties.message_id)
            THEN m.properties.message_id
            ELSE @,
        !.message_id = IF ~TruthyValue(@) THEN FreshId ELSE @,
        !.timestamp = IF ~TruthyValue(@) THEN Now ELSE @]

\* the arguments of rpc_reply
ReplyCall(body, properties, x, explicit, connection) ==
    [body |-> body, properties |-> properties, exchange |-> x,
     reply_to |-> explicit, connection |-> connection]

\* rpc_reply
RpcReply(is_smart, conns, m, a) ==
    IF ReplyToMissing(a.reply_to, m.properties.reply_to)
    THEN Raises("ValueError")
    ELSE PublishMessage(is_smart, conns, m,
            PositionalCall(is_smart, Or(a.exchange, m.exchange),
                           Or(a.reply_to, m.properties.reply_to),
                           RpcReplyProperties(a.properties, m), a.body,
                           a.connection))

(* ---- the confirmation tracker of a connection ---- *)
\* the tags of S in ascending order
RECURSIVE Ascending(_)
Ascending(S) ==
    IF S = {}
    THEN <<>>
    ELSE LET least == CHOOSE x \in S : \A y \in S : x <= y
         IN <<least>> \o Ascending(S \ {least})

\* a confirmation that resolves its own tag only, whatever "multiple" says
ResolvedSingly(pend, tag, multiple) == pend \cap {tag}

\* the pending tags a confirmation of tag resolves
Resolved(pend, tag, multiple) ==
    IF multiple THEN {t \in pend : t <= tag} ELSE pend \cap {tag}

\* clear_confirmation_futures, were it to drop the map and leave the futures
ClearedDiscarding(fs, pend) == fs

\* the futures of a connection after clear_confirmation_futures
Cleared(fs, pend) ==
    [t \in DOMAIN fs |-> IF t \in pend THEN "failed" ELSE fs[t]]

\* execute, were it to clear the connection of the message only
ClearedConnectionsOfMessage(conns, m) == {m.connection}

\* the connections whose confirmations execute clears before it returns ACK
ClearedConnections(conns, m) == DOMAIN conns


(* ---- state ---- *)
VARIABLES
    \* configuration, set by __init__
    message_type,       \* self._message_type: the accepted type
    drop_invalid,       \* self._drop_invalid
    drop_exchange,      \* self._drop_exchange, None when unset
    error_max_retry,    \* self._error_max_retry, 0 when unset (None)
    \* per-message state of the consumer
    finished,           \* self._finished
    message,            \* self._message
    tags,               \* tags of self._measurement
    \* the execute coroutine
    pc,                 \* where execute is
    in_coroutine,       \* the running callback has returned a future
    raised,             \* the exception prepare or process raised
    returning,          \* the gen.Return value in flight through finally
    escaping,           \* an exception in flight through finally
    outcome,            \* the Outcome execute returned
    escaped,            \* the exception execute raised to its caller
    \* what happened during this execution
    delivered,          \* message_in as it was delivered
    prepare_state,      \* not_called, running, completed, raised
    process_state,
    finish_calls,       \* calls of finish()
    on_finish_calls,    \* calls of on_finish()
    user_finish_calls,  \* calls of finish() made by the running callback
    finished_in_prepare,\* finish() marked the message finished in prepare
    published,          \* the basic_publish calls that went through
    sentry,             \* exceptions handed to send_exception_to_sentry
    \* publishing
    smart,              \* the consumer is a SmartConsumer
    connections,        \* self._connections: name -> connection
    pending,            \* per connection: delivery tags with a pending future
    delivery_tag,       \* per connection: the last delivery tag assigned
    futures,            \* per connection: the state of the future of each tag
    resolutions,        \* per connection: tags in the order they were resolved
    last_confirm,       \* the last confirmation the broker reported
    last_call,          \* the last publish_message or rpc_reply call
    \* measurement and body
    measurement,        \* self._measurement
    message_body,       \* self._message_body
    decode_calls,       \* reads of body, decompress and load calls made,
                        \* and whether a read raised MessageException
    last_read,          \* what the last read of body returned or raised
    last_stat,          \* the last stats call and what became of its value
    \* beside one execution
    state,              \* State._state
    state_start,        \* State._state_start
    last_set,           \* the last set_state call
    runs,               \* overlapping executions: the frame of each
    retry,              \* the redeliveries of one message so far
    previous            \* what the execution before this one left behind

config == <<message_type, drop_invalid, drop_exchange, error_max_retry>>
vars ==
    <<message_type, drop_invalid, drop_exchange, error_max_retry, finished,
      message, tags, pc, in_coroutine, raised, returning, escaping, outcome,
      escaped, delivered, prepare_state, process_state, finish_calls,
      on_finish_calls, user_finish_calls, finished_in_prepare, published, sentry,
      smart, connections, pending, delivery_tag, futures, resolutions,
      last_confirm, last_call, measurement, message_body, decode_calls,
      last_read, last_stat, state, state_start, last_set, runs, retry,
      previous>>
other == <<state, state_start, last_set, runs, retry, previous>>
decoding == <<message_body, decode_calls, last_read>>
stats == <<measurement, last_stat>>
tracker == <<pending, delivery_tag, futures, resolutions, last_confirm>>
publishing == <<smart, connections, tracker, last_call>>
engine ==
    <<finished, message, tags, pc, in_coroutine, raised, returning, escaping,
      outcome, escaped, delivered, prepare_state, process_state, finish_calls,
      on_finish_calls, user_finish_calls, finished_in_prepare, published, sentry>>

\* no confirmation reported, no call made
NoConfirm ==
    [connection |-> None, tag |-> 0, ack |-> FALSE, multiple |-> FALSE,
     before |-> {}]
NoCall ==
    [fn |-> None, reply |-> ReplyCall(TextBody, NoProperties, None, None, None),
     call |-> KeywordCall(None, None, NoProperties, TextBody, None),
     result |-> Raises(None), before |-> [c \in ConnectionNames |-> 0],
     propagated |-> FALSE]

\* set_connection: connections that are up, without publisher confirmations
PlainConnections ==
    [c \in ConnectionNames |->
        [publisher_confirmations |-> FALSE, is_connected |-> TRUE,
         channel_is_closed |-> FALSE]]

\* a consumer that has published nothing
NothingPublished ==
    /\ pending = [c \in ConnectionNames |-> {}]
    /\ delivery_tag = [c \in ConnectionNames |-> 0]
    /\ futures = [c \in ConnectionNames |-> <<>>]
    /\ resolutions = [c \in ConnectionNames |-> <<>>]
    /\ last_confirm = NoConfirm
    /\ last_call = NoCall

\* nothing read, no stats call made
NoDecodeCalls == [reads |-> 0, decompress |-> 0, load |-> 0, failed |-> FALSE]
NoRead == [raised |-> None, value |-> NoBody]
NoStat == [fn |-> None, during |-> FALSE, recorded |-> FALSE]

\* self._measurement: None, or the Measurement of the last execute and the
\* stats calls that wrote to it
NoMeasurement == [exists |-> FALSE, values |-> {}]
Measurement == [exists |-> TRUE, values |-> {}]

(* ---- rejected.common.State ---- *)
STATE_INITIALIZING == 1
STATE_CONNECTING == 2
STATE_IDLE == 3
STATE_ACTIVE == 4
STATE_SLEEPING == 5
STATE_STOP_REQUESTED == 6
STATE_SHUTTING_DOWN == 7
STATE_STOPPED == 8

\* State._STATES, for reverse lookup
STATES ==
    [s \in STATE_INITIALIZING..STATE_STOPPED |->
        CASE s = STATE_INITIALIZING -> "Initializing"
          [] s = STATE_CONNECTING -> "Connecting"
          [] s = STATE_IDLE -> "Idle"
          [] s = STATE_ACTIVE -> "Active"
          [] s = STATE_SLEEPING -> "Sleeping"
          [] s = STATE_STOP_REQUESTED -> "Stop Requested"
          [] s = STATE_SHUTTING_DOWN -> "Shutting down"
          [] s = STATE_STOPPED -> "Stopped"]

\* set_state without its test
ValidStateAny(new_state) == TRUE

\* "new_state not in self._STATES" fails
ValidState(new_state) == new_state \in DOMAIN STATES

\* State.is_running
is_running(s) == s \in {STATE_IDLE, STATE_ACTIVE, STATE_SLEEPING}

\* no set_state call made
NoSet == [new_state |-> 0, raised |-> None, state |-> 0, state_start |-> 0]

\* one execution of several that overlap: where it is, the message it was
\* given, what it saw on the consumer when it last resumed, how often it
\* ran process and on_finish, and the Outcome it returned
IdleRun ==
    [pc |-> "idle", message_in |-> NoMessage, resumed |-> FALSE,
     seen_message |-> NoMessage, seen_finished |-> FALSE, own_finished |-> FALSE,
     process_calls |-> 0, on_finish_calls |-> 0, returning |-> None,
     outcome |-> None]
Runs == {"A", "B"}

\* no redelivery so far, no execution before this one
NoRetry == [cycles |-> 0, invoked |-> 0, counters |-> <<>>, queued |-> <<>>]
NoPrevious == [executed |-> FALSE, finished |-> FALSE, message_body |-> NoBody]

\* State.__init__, and nothing that happened beside the first execution
Initializing ==
    /\ state = STATE_INITIALIZING
    /\ state_start = 0
    /\ last_set = NoSet
    /\ runs = [r \in Runs |-> IdleRun]
    /\ retry = NoRetry
    /\ previous = NoPrevious

\* the state of a consumer before its first message
Idle ==
    /\ Initializing
    /\ measurement = NoMeasurement
    /\ message_body = NoBody
    /\ decode_calls = NoDecodeCalls
    /\ last_read = NoRead
    /\ last_stat = NoStat
    /\ finished = FALSE
    /\ message = NoMessage
    /\ tags = EmptyDict
    /\ pc = "idle"
    /\ in_coroutine = FALSE
    /\ raised = NoException
    /\ returning = None
    /\ escaping = None
    /\ outcome = None
    /\ escaped = None
    /\ delivered = NoMessage
    /\ prepare_state = "not_called"
    /\ process_state = "not_called"
    /\ finish_calls = 0
    /\ on_finish_calls = 0
    /\ user_finish_calls = 0
    /\ finished_in_prepare = FALSE
    /\ published = <<>>
    /\ sentry = 0

\* Consumer.__init__
Init ==
    /\ message_type \in AcceptedTypes
    /\ drop_invalid \in BOOLEAN
    /\ drop_exchange \in {None, "drops"}
    /\ error_max_retry \in 0..MaxRetries
    /\ Idle
    /\ smart = FALSE
    /\ connections = PlainConnections
    /\ NothingPublished

\* _clear, were it to leave the decoded body of the last message in place
ClearedBodyKept(b) == b

\* _clear: self._message_body = None
ClearedBody(b) == NoBody

\* execute, from its entry to the type check: _clear, the new message and a
\* fresh measurement
Execute(m) ==
    /\ pc = "idle"
    /\ finished' = FALSE
    /\ message' = m
    /\ tags' = EmptyDict
    /\ pc' = "type_filter"
    /\ in_coroutine' = FALSE
    /\ raised' = NoException
    /\ returning' = None
    /\ escaping' = None
    /\ outcome' = None
    /\ escaped' = None
    /\ delivered' = m
    /\ prepare_state' = "not_called"
    /\ process_state' = "not_called"
    /\ finish_calls' = 0
    /\ on_finish_calls' = 0
    /\ user_finish_calls' = 0
    /\ finished_in_prepare' = FALSE
    /\ published' = <<>>
    /\ sentry' = 0
    /\ last_call' = NoCall
    /\ measurement' = Measurement
    /\ message_body' = ClearedBody(message_body)
    /\ decode_calls' = NoDecodeCalls
    /\ last_read' = NoRead
    /\ last_stat' = NoStat
    /\ UNCHANGED <<config, smart, connections, tracker>>

\* raise gen.Return(value) outside the try block
Return(value) ==
    /\ pc' = "done"
    /\ outcome' = value

\* an exception leaves execute
Propagate(k) ==
    /\ pc' = "done"
    /\ escaped' = k

\* _republish_dropped_message(reason), its basic_publish going through
RepublishDropped(reason, now) ==
    LET h == DroppedHeaders(message, reason, now)
    IN /\ published' = Append(published, Publish(drop_exchange, message, h))
       /\ message' = AfterHeaderWrite(message, h)

\* _republish_dropped_message(reason), its basic_publish raising
RepublishDroppedFails(reason, now) ==
    LET h == DroppedHeaders(message, reason, now)
    IN /\ published' = published
       /\ message' = AfterHeaderWrite(message, h)

\* the type check lets the message through
TypeFilterPass ==
    /\ pc = "type_filter"
    /\ Truthy(message_type)
         => message_supported(message_type, message_type_property(message))
    /\ pc' = "poison_filter"
    /\ UNCHANGED <<config, publishing, decoding, stats, other, finished, message, tags, in_coroutine, raised,
                   returning, escaping, outcome, escaped, delivered,
                   prepare_state, process_state, finish_calls, on_finish_calls,
                   user_finish_calls, finished_in_prepare, published, sentry>>

\* the type check stops the message
TypeFilterInvalid ==
    /\ pc = "type_filter"
    /\ Truthy(message_type)
    /\ ~message_supported(message_type, message_type_property(message))
    /\ \/ /\ ~drop_invalid
          /\ Return(MESSAGE_EXCEPTION)
          /\ UNCHANGED <<message, published, escaped>>
       \/ /\ drop_invalid
          /\ ~RepublishesDropped(drop_exchange)
          /\ Return(MESSAGE_DROP)
          /\ UNCHANGED <<message, published, escaped>>
       \/ /\ drop_invalid
          /\ RepublishesDropped(drop_exchange)
          /\ \E now \in Times :
                \/ /\ RepublishDropped(Text("invalid type"), now)
                   /\ Return(MESSAGE_DROP)
                   /\ UNCHANGED escaped
                \/ /\ RepublishDroppedFails(Text("invalid type"), now)
                   /\ Propagate("AMQPError")
                   /\ UNCHANGED outcome
    /\ UNCHANGED <<config, publishing, decoding, stats, other, finished, tags, in_coroutine, raised, returning,
                   escaping, delivered, prepare_state, process_state,
                   finish_calls, on_finish_calls, user_finish_calls,
                   finished_in_prepare, sentry>>

\* the check of the retry counter against error_max_retry
PoisonFilter ==
    /\ pc = "poison_filter"
    /\ \E r \in PoisonCheck(headers(message), error_max_retry) :
        \/ /\ r = "pass"
           /\ pc' = "call_prepare"
           /\ UNCHANGED <<message, published, outcome, escaped>>
        \/ /\ r = "TypeError"
           /\ Propagate("TypeError")
           /\ UNCHANGED <<message, published, outcome>>
        \/ /\ r = "drop"
           /\ ~RepublishesDropped(drop_exchange)
           /\ Return(MESSAGE_DROP)
           /\ UNCHANGED <<message, published, escaped>>
        \/ /\ r = "drop"
           /\ RepublishesDropped(drop_exchange)
           /\ \E now \in Times :
                LET reason == Format("max retries ({})",
                                     headers(message)[PROCESSING_EXCEPTIONS])
                IN \/ /\ RepublishDropped(reason, now)
                      /\ Return(MESSAGE_DROP)
                      /\ UNCHANGED escaped
                   \/ /\ RepublishDroppedFails(reason, now)
                      /\ Propagate("AMQPError")
                      /\ UNCHANGED outcome
    /\ UNCHANGED <<config, publishing, decoding, stats, other, finished, tags, in_coroutine, raised, returning,
                   escaping, delivered, prepare_state, process_state,
                   finish_calls, on_finish_calls, user_finish_calls,
                   finished_in_prepare, sentry>>


(* ---- prepare and process: user code ---- *)
\* finish() without its guard
FinishAlwaysRunsHook(fin) == TRUE

\* finish() runs on_finish only for a message not yet finished
FinishRunsHook(fin) == ~fin

\* execute, were its finally clause to leave finish() out
FinallySkipsFinish(fin) == FALSE

\* the finally clause of execute calls finish() for a message not yet finished
FinallyFinishes(fin) == ~fin

\* Republishes, were the MessageException handler to republish as well
RepublishesMessageErrors(k) == k \in {"ProcessingException", "MessageException"}

\* the handler of ProcessingException republishes to the error exchange
Republishes(k) == k = "ProcessingException"

\* result = self.prepare()
CallPrepare ==
    /\ pc = "call_prepare"
    /\ pc' = "prepare"
    /\ prepare_state' = "running"
    /\ user_finish_calls' = 0
    /\ in_coroutine' = FALSE
    /\ UNCHANGED <<config, publishing, decoding, stats, other, finished, message, tags, raised, returning, escaping,
                   outcome, escaped, delivered, process_state, finish_calls,
                   on_finish_calls, finished_in_prepare, published, sentry>>

\* result = self.process()
CallProcess ==
    /\ pc = "call_process"
    /\ pc' = "process"
    /\ process_state' = "running"
    /\ user_finish_calls' = 0
    /\ in_coroutine' = FALSE
    /\ UNCHANGED <<config, publishing, decoding, stats, other, finished, message, tags, raised, returning, escaping,
                   outcome, escaped, delivered, prepare_state, finish_calls,
                   on_finish_calls, finished_in_prepare, published, sentry>>

\* the callback that is running ends with state st
CallbackEnds(st) ==
    /\ prepare_state' = IF pc = "prepare" THEN st ELSE prepare_state
    /\ process_state' = IF pc = "process" THEN st ELSE process_state
    /\ in_coroutine' = FALSE

\* user code calls self.finish(); on_finish returns or raises, and what it
\* raises leaves the callback
UserFinish ==
    /\ pc \in {"prepare", "process"}
    /\ user_finish_calls < MaxFinishCalls
    /\ finish_calls' = finish_calls + 1
    /\ \/ /\ ~FinishRunsHook(finished)
          /\ user_finish_calls' = user_finish_calls + 1
          /\ UNCHANGED <<finished, on_finish_calls, finished_in_prepare, pc,
                         raised, prepare_state, process_state, in_coroutine>>
       \/ /\ FinishRunsHook(finished)
          /\ finished' = TRUE
          /\ on_finish_calls' = on_finish_calls + 1
          /\ finished_in_prepare' = (pc = "prepare")
          /\ \/ /\ user_finish_calls' = user_finish_calls + 1
                /\ UNCHANGED <<pc, raised, prepare_state, process_state,
                               in_coroutine>>
             \/ /\ raised' = Exc("Exception", None)
                /\ pc' = "except"
                /\ user_finish_calls' = 0
                /\ CallbackEnds("raised")
    /\ UNCHANGED <<config, publishing, decoding, stats, other, message, tags, returning, escaping, outcome,
                   escaped, delivered, published, sentry>>

\* the callback returns a future that is not done: execute yields it
UserSuspend ==
    /\ pc \in {"prepare", "process"}
    /\ ~in_coroutine
    /\ in_coroutine' = TRUE
    /\ pc' = IF pc = "prepare" THEN "prepare_yield" ELSE "process_yield"
    /\ UNCHANGED <<config, publishing, decoding, stats, other, finished, message, tags, raised, returning, escaping,
                   outcome, escaped, delivered, prepare_state, process_state,
                   finish_calls, on_finish_calls, user_finish_calls,
                   finished_in_prepare, published, sentry>>

\* the IOLoop runs the suspended callback again
UserResume ==
    /\ pc \in {"prepare_yield", "process_yield"}
    /\ pc' = IF pc = "prepare_yield" THEN "prepare" ELSE "process"
    /\ UNCHANGED <<config, publishing, decoding, stats, other, finished, message, tags, in_coroutine, raised,
                   returning, escaping, outcome, escaped, delivered,
                   prepare_state, process_state, finish_calls, on_finish_calls,
                   user_finish_calls, finished_in_prepare, published, sentry>>

\* the callback returns, or its future resolves
UserReturn ==
    /\ pc \in {"prepare", "process"}
    /\ CallbackEnds("completed")
    /\ pc' = IF pc = "prepare" THEN AfterPrepare(finished) ELSE "finally"
    /\ user_finish_calls' = 0
    /\ UNCHANGED <<config, publishing, decoding, stats, other, finished, message, tags, raised, returning, escaping,
                   outcome, escaped, delivered, finish_calls, on_finish_calls,
                   finished_in_prepare, published, sentry>>

\* the callback raises e, or its future resolves with e
UserRaise(e) ==
    /\ pc \in {"prepare", "process"}
    /\ CallbackEnds("raised")
    /\ raised' = e
    /\ pc' = "except"
    /\ user_finish_calls' = 0
    /\ UNCHANGED <<config, publishing, decoding, stats, other, finished, message, tags, returning, escaping, outcome,
                   escaped, delivered, finish_calls, on_finish_calls,
                   finished_in_prepare, published, sentry>>

(* ---- the except clauses, finally and the return of execute ---- *)
\* the error argument of _republish_processing_error
ErrorTag(e) == IF e.metric # None THEN e.metric ELSE e.kind

\* the except clause that catches the exception of prepare or process
Except ==
    /\ pc = "except"
    /\ pc' = "finally"
    /\ tags' = HandlerTags(tags, raised)
    /\ sentry' = IF LogsException(raised.kind) THEN sentry + 1 ELSE sentry
    /\ \/ /\ ~Republishes(raised.kind)
          /\ returning' = HandlerOutcome(raised.kind)
          /\ UNCHANGED <<message, published, escaping>>
       \/ /\ Republishes(raised.kind)
          /\ LET h == ProcessingErrorHeaders(message, ErrorTag(raised))
             IN /\ message' = AfterHeaderWrite(message, h)
                /\ \/ /\ published' =
                            Append(published, Publish(ERROR_EXCHANGE, message, h))
                      /\ returning' = HandlerOutcome(raised.kind)
                      /\ UNCHANGED escaping
                   \/ /\ escaping' = "AMQPError"
                      /\ UNCHANGED <<published, returning>>
    /\ UNCHANGED <<config, publishing, decoding, stats, other, finished, in_coroutine, raised, outcome, escaped,
                   delivered, prepare_state, process_state, finish_calls,
                   on_finish_calls, user_finish_calls, finished_in_prepare>>

\* execute leaves the try statement: with the exception esc, with the
\* Outcome of a handler, or falling through to the code after it
Leave(esc) ==
    IF esc # None
    THEN Propagate(esc) /\ UNCHANGED outcome
    ELSE IF returning # None
         THEN Return(returning) /\ UNCHANGED escaped
         ELSE pc' = "clear" /\ UNCHANGED <<outcome, escaped>>

\* the finally clause
Finally ==
    /\ pc = "finally"
    /\ \/ /\ ~FinallyFinishes(finished)
          /\ Leave(escaping)
          /\ UNCHANGED <<finished, finish_calls, on_finish_calls>>
       \/ /\ FinallyFinishes(finished)
          /\ finish_calls' = finish_calls + 1
          /\ \/ /\ ~FinishRunsHook(finished)
                /\ Leave(escaping)
                /\ UNCHANGED <<finished, on_finish_calls>>
             \/ /\ FinishRunsHook(finished)
                /\ finished' = TRUE
                /\ on_finish_calls' = on_finish_calls + 1
                /\ \/ Leave(escaping)
                   \/ Leave("Exception")
    /\ UNCHANGED <<config, publishing, decoding, stats, other, message, tags, in_coroutine, raised, returning,
                   escaping, delivered, prepare_state, process_state,
                   user_finish_calls, finished_in_prepare, published, sentry>>

\* after the try statement: clear the pending confirmations, return ACK
ClearAndAck ==
    /\ pc = "clear"
    /\ pending' =
         [c \in DOMAIN pending |->
            IF c \in ClearedConnections(connections, message)
            THEN {}
            ELSE pending[c]]
    /\ futures' =
         [c \in DOMAIN futures |->
            IF c \in ClearedConnections(connections, message)
            THEN Cleared(futures[c], pending[c])
            ELSE futures[c]]
    /\ last_confirm' = NoConfirm
    /\ Return(MESSAGE_ACK)
    /\ UNCHANGED <<smart, connections, delivery_tag, resolutions, last_call,
                   decoding, stats, other>>
    /\ UNCHANGED <<config, finished, message, tags, in_coroutine, raised,
                   returning, escaping, escaped, delivered, prepare_state,
                   process_state, finish_calls, on_finish_calls,
                   user_finish_calls, finished_in_prepare, published, sentry>>

\* the caller of execute takes its result; the consumer waits for the next
\* delivery with the fields execute left on it
ReturnToCaller ==
    /\ pc = "done"
    /\ pc' = "idle"
    /\ raised' = NoException
    /\ returning' = None
    /\ escaping' = None
    /\ outcome' = None
    /\ escaped' = None
    /\ delivered' = NoMessage
    /\ prepare_state' = "not_called"
    /\ process_state' = "not_called"
    /\ finish_calls' = 0
    /\ on_finish_calls' = 0
    /\ finished_in_prepare' = FALSE
    /\ published' = <<>>
    /\ sentry' = 0
    /\ UNCHANGED <<config, publishing, decoding, stats, finished, message, tags, in_coroutine,
                   user_finish_calls>>

(* ---- user code publishes; the broker confirms ---- *)
\* the number of futures registered so far
RECURSIVE Total(_, _)
Total(f, S) ==
    IF S = {}
    THEN 0
    ELSE LET c == CHOOSE x \in S : TRUE IN f[c] + Total(f, S \ {c})

\* Connection.add_confirmation_future: the future is filed under the next
\* delivery tag of the connection
AddConfirmationFuture(c) ==
    /\ delivery_tag' = [delivery_tag EXCEPT ![c] = @ + 1]
    /\ pending' = [pending EXCEPT ![c] = @ \cup {delivery_tag[c] + 1}]
    /\ futures' = [futures EXCEPT ![c] = Append(@, "pending")]

\* a call of publish_message or rpc_reply by the running callback, with
\* result res
Called(fn, reply, call, res) ==
    /\ pc \in {"prepare", "process"}
    /\ IF res.raised = None /\ res.future
       THEN /\ Total(delivery_tag, ConnectionNames) < MaxHandles
            /\ AddConfirmationFuture(res.connection)
       ELSE UNCHANGED <<pending, delivery_tag, futures>>
    /\ last_call' = [fn |-> fn, reply |-> reply, call |-> call, result |-> res,
                     before |-> delivery_tag, propagated |-> FALSE]
    /\ UNCHANGED <<config, engine, decoding, stats, other, smart, connections,
                   resolutions, last_confirm>>

\* the except clause an exception of a call reaches when user code lets it
\* leave the callback: the clauses of execute name the rejected exception
\* classes, the last one catches Exception
CaughtAs(k) == IF k \in ExceptionKinds THEN k ELSE "Exception"

\* a call of publish_message or rpc_reply raises and user code does not
\* catch the exception
CallEscapes(fn, reply, call, res) ==
    /\ pc \in {"prepare", "process"}
    /\ res.raised # None
    /\ CallbackEnds("raised")
    /\ raised' = Exc(CaughtAs(res.raised), None)
    /\ pc' = "except"
    /\ user_finish_calls' = 0
    /\ last_call' = [fn |-> fn, reply |-> reply, call |-> call, result |-> res,
                     before |-> delivery_tag, propagated |-> TRUE]
    /\ UNCHANGED <<config, decoding, stats, other, smart, connections, tracker,
                   finished, message, tags, returning, escaping, outcome,
                   escaped, delivered, finish_calls, on_finish_calls,
                   finished_in_prepare, published, sentry>>

\* user code calls self.publish_message(...)
UserPublish(call) ==
    Called("publish_message", NoCall.reply, call,
           PublishMessage(smart, connections, message, call))

\* user code calls self.publish_message(...) and does not catch what it
\* raises
UserPublishEscapes(call) ==
    CallEscapes("publish_message", NoCall.reply, call,
                PublishMessage(smart, connections, message, call))

\* user code calls self.rpc_reply(...)
UserReply(a) ==
    Called("rpc_reply", a, NoCall.call, RpcReply(smart, connections, message, a))

\* the broker confirms tag on connection c while execute is suspended or
\* not running: Basic.Ack or Basic.Nack, for one tag or for all up to it
Confirm(c, tag, ack, multiple) ==
    /\ pc \in {"prepare_yield", "process_yield", "idle", "done"}
    /\ tag \in pending[c]
    /\ LET rs == Resolved(pending[c], tag, multiple)
       IN /\ futures' =
               [futures EXCEPT ![c] =
                  [t \in DOMAIN @ |->
                     IF t \in rs THEN (IF ack THEN "ack" ELSE "nack") ELSE @[t]]]
          /\ pending' = [pending EXCEPT ![c] = @ \ rs]
          /\ resolutions' = [resolutions EXCEPT ![c] = @ \o Ascending(rs)]
    /\ last_confirm' = [connection |-> c, tag |-> tag, ack |-> ack,
                        multiple |-> multiple, before |-> pending[c]]
    /\ UNCHANGED <<config, engine, decoding, stats, other, smart, connections,
                   delivery_tag, last_call>>

(* ---- stats calls and reads of body by user code ---- *)
\* execute is running: between its entry and its return
Executing == pc \notin {"idle", "done"}

\* the stats methods
StatsMethods ==
    {"stats_add_duration", "stats_incr", "stats_set_tag", "stats_set_value"}

\* stats_incr and the other stats methods: "if not self._measurement" drops
\* the value, otherwise it is written to self._measurement. Called by the
\* callback that runs, or by other code of the consumer while no execute
\* is running
StatsCall(fn) ==
    /\ pc \in {"prepare", "process", "idle", "done"}
    /\ Cardinality(measurement.values) < MaxStats
    /\ [fn |-> fn, during |-> Executing] \notin measurement.values
    /\ measurement' =
         IF measurement.exists
         THEN [measurement EXCEPT
                 !.values = @ \cup {[fn |-> fn, during |-> Executing]}]
         ELSE measurement
    /\ last_stat' = [fn |-> fn, during |-> Executing,
                     recorded |-> measurement.exists]
    /\ UNCHANGED <<config, engine, publishing, decoding, other>>

\* a read of self.body by the callback that runs: the cached value if there
\* is one, else the body decompressed and deserialized
ReadBody ==
    /\ pc \in {"prepare", "process"}
    /\ smart
    /\ decode_calls.reads < MaxReads
    /\ IF TruthyBody(message_body)
       THEN /\ last_read' = [raised |-> None, value |-> message_body]
            /\ decode_calls' = [decode_calls EXCEPT !.reads = @ + 1]
            /\ UNCHANGED message_body
       ELSE LET d == MaybeDecompress(message)
                r == MaybeDeserialize(message, d.body)
            IN IF d.raised # None
               THEN /\ last_read' = [raised |-> d.raised, value |-> NoBody]
                    /\ decode_calls' =
                         [decode_calls EXCEPT !.reads = @ + 1,
                                              !.decompress = @ + d.calls]
                    /\ UNCHANGED message_body
               ELSE /\ last_read' =
                         [raised |-> r.raised,
                          value |-> IF r.raised = None THEN r.body ELSE NoBody]
                    /\ message_body' =
                         IF r.raised = None THEN r.body ELSE d.body
                    /\ decode_calls' =
                         [reads |-> decode_calls.reads + 1,
                          decompress |-> decode_calls.decompress + d.calls,
                          load |-> decode_calls.load + r.calls,
                          failed |-> \/ decode_calls.failed
                                     \/ r.raised = "MessageException"]
    /\ UNCHANGED <<config, engine, publishing, stats, other>>

(* ---- the State mixin ---- *)
\* set_state(new_state) at time now: ValueError for a value that is not a
\* key of _STATES, else the state and its start time are assigned
SetState(new_state, now) ==
    /\ now >= state_start
    /\ last_set' = [new_state |-> new_state,
                    raised |-> IF ValidState(new_state) THEN None
                               ELSE "ValueError",
                    state |-> state, state_start |-> state_start]
    /\ IF ValidState(new_state)
       THEN state' = new_state /\ state_start' = now
       ELSE UNCHANGED <<state, state_start>>
    /\ UNCHANGED <<config, engine, publishing, decoding, stats, runs, retry,
                   previous>>

Next ==
    \/ \E m \in Messages : Execute(m) /\ UNCHANGED other
    \/ ReturnToCaller /\ UNCHANGED other
    \/ TypeFilterPass
    \/ TypeFilterInvalid
    \/ PoisonFilter
    \/ CallPrepare
    \/ CallProcess
    \/ UserFinish
    \/ UserSuspend
    \/ UserResume
    \/ UserReturn
    \/ \E e \in Raisable : UserRaise(e)
    \/ Except
    \/ Finally
    \/ ClearAndAck

Spec == Init /\ [][Next]_vars

(* ---- a consumer that publishes on connections with confirmations ---- *)
\* a consumer without type filter, drop exchange and retry limit
Unfiltered ==
    /\ message_type = [collection |-> FALSE, types |-> {}]
    /\ drop_invalid = FALSE
    /\ drop_exchange = None
    /\ error_max_retry = 0

\* set_connection: each connection with or without publisher confirmations
Connections ==
    [ConnectionNames ->
        {[publisher_confirmations |-> b, is_connected |-> TRUE,
          channel_is_closed |-> FALSE] :
            b \in BOOLEAN}]

\* the connections publish_message is asked to use: that of the message,
\* or a named one
ConnectionArgs == {None} \cup ConnectionNames

InitConfirm ==
    /\ Unfiltered
    /\ Idle
    /\ smart = FALSE
    /\ connections \in Connections
    /\ NothingPublished

NextConfirm ==
    \/ \E m \in ReplyMessages :
          /\ m.properties.reply_to = None
          /\ m.properties.message_id = None
          /\ Execute(m)
          /\ UNCHANGED other
    \/ TypeFilterPass
    \/ PoisonFilter
    \/ CallPrepare
    \/ CallProcess
    \/ \E c \in ConnectionArgs :
          UserPublish(KeywordCall("ex", "rk", NoProperties, TextBody, c))
    \/ UserSuspend
    \/ UserResume
    \/ UserReturn
    \/ \E k \in {"ProcessingException", "Exception"} : UserRaise(Exc(k, None))
    \/ \E c \in ConnectionNames, tag \in 1..MaxHandles, ack, multiple \in BOOLEAN :
          Confirm(c, tag, ack, multiple)
    \/ Except
    \/ Finally
    \/ ClearAndAck

SpecConfirm == InitConfirm /\ [][NextConfirm]_vars

(* ---- a consumer whose code calls the stats methods ---- *)
NextStats ==
    \/ \E m \in ReplyMessages :
          /\ m.properties.reply_to = None
          /\ m.properties.message_id = None
          /\ Execute(m)
          /\ UNCHANGED other
    \/ ReturnToCaller /\ UNCHANGED other
    \/ TypeFilterPass
    \/ PoisonFilter
    \/ CallPrepare
    \/ CallProcess
    \/ \E fn \in StatsMethods : StatsCall(fn)
    \/ UserReturn
    \/ \E k \in {"ProcessingException"} : UserRaise(Exc(k, None))
    \/ Except
    \/ Finally
    \/ ClearAndAck

SpecStats == InitConfirm /\ [][NextStats]_vars

(* ---- a Consumer or SmartConsumer that replies and publishes ---- *)
\* rpc_reply calls: every choice of reply properties and routing key on the
\* connection of the message, and every choice of body, codec and connection
\* with an explicit routing key
ReplyCalls ==
    {ReplyCall(TextBody, p, None, r, None) :
        p \in ReplyProperties, r \in {None, EMPTY, "explicit"}}
    \cup {ReplyCall(b, p, None, "explicit", c) :
            b \in {TextBody, StructuredBody}, p \in CodecProperties,
            c \in ConnectionArgs}

PublishCalls ==
    {KeywordCall("ex", "rk", p, b, c) :
        b \in {TextBody, StructuredBody}, p \in CodecProperties,
        c \in ConnectionArgs}

\* one connection with publisher confirmations and one without
InitReply ==
    /\ Unfiltered
    /\ Idle
    /\ smart \in BOOLEAN
    /\ connections \in Connections
    /\ connections["c1"].publisher_confirmations
         # connections["c2"].publisher_confirmations
    /\ NothingPublished

NextReply ==
    \/ \E m \in ReplyMessages : Execute(m) /\ UNCHANGED other
    \/ TypeFilterPass
    \/ PoisonFilter
    \/ CallPrepare
    \/ CallProcess
    \/ \E a \in ReplyCalls : pc = "process" /\ UserReply(a)
    \/ \E call \in PublishCalls : pc = "process" /\ UserPublish(call)
    \/ UserReturn
    \/ UserRaise(Exc("Exception", None))
    \/ Except
    \/ Finally
    \/ ClearAndAck

SpecReply == InitReply /\ [][NextReply]_vars

(* ---- the state of the process that owns the consumer ---- *)
\* the values handed to set_state: the eight states and two that are none
StateArgs == (STATE_INITIALIZING - 1)..(STATE_STOPPED + 1)

NextState ==
    \E new_state \in StateArgs, now \in 0..MaxClock : SetState(new_state, now)

\* State.__init__; the consumer of the process is not looked at
InitState ==
    /\ Unfiltered
    /\ Idle
    /\ smart = FALSE
    /\ connections = PlainConnections
    /\ NothingPublished

SpecState == InitState /\ [][NextState]_vars

(* ---- an error exchange that redelivers what is republished to it ---- *)
\* the counter a delivery carries, Absent when the header is missing
Absent == [kind |-> "absent", num |-> 0, den |-> 1]
CounterOf(m) ==
    IF PROCESSING_EXCEPTIONS \in DOMAIN headers(m)
    THEN headers(m)[PROCESSING_EXCEPTIONS]
    ELSE Absent

\* the message the broker delivers for one basic_publish
Redelivered(p) ==
    [exchange |-> p.exchange, routing_key |-> p.routing_key, body |-> p.body,
     connection |-> "c1", properties |-> p.properties]

\* what this execution published to the error exchange
RECURSIVE ToErrorExchange(_)
ToErrorExchange(ps) ==
    IF ps = <<>>
    THEN <<>>
    ELSE IF Head(ps).exchange = ERROR_EXCHANGE
         THEN <<Redelivered(Head(ps))>> \o ToErrorExchange(Tail(ps))
         ELSE ToErrorExchange(Tail(ps))

\* user code was invoked in the execution that is ending
Invoked == prepare_state # "not_called"

\* the first delivery of a message
FirstDelivery(m) ==
    /\ retry.cycles = 0
    /\ Execute(m)
    /\ retry' = [cycles |-> 1, invoked |-> 0, counters |-> <<CounterOf(m)>>,
                 queued |-> <<>>]
    /\ UNCHANGED <<state, state_start, last_set, runs, previous>>

\* execute returns or raises; what it published to the error exchange waits
\* for its redelivery
ReturnRetry ==
    /\ ReturnToCaller
    /\ retry' = [retry EXCEPT !.invoked = IF Invoked THEN @ + 1 ELSE @,
                              !.queued = @ \o ToErrorExchange(published)]
    /\ UNCHANGED <<state, state_start, last_set, runs, previous>>

\* the error exchange delivers the republished message to the consumer
Redeliver ==
    /\ retry.queued # <<>>
    /\ Execute(Head(retry.queued))
    /\ retry' = [retry EXCEPT !.cycles = @ + 1,
                              !.counters = Append(@, CounterOf(Head(retry.queued))),
                              !.queued = Tail(@)]
    /\ UNCHANGED <<state, state_start, last_set, runs, previous>>

RetryMessages ==
    {m \in Messages : m.exchange = "ex1" /\ m.properties.type = None}

InitRetry ==
    /\ message_type = [collection |-> FALSE, types |-> {}]
    /\ drop_invalid = FALSE
    /\ drop_exchange \in {None, "drops"}
    /\ error_max_retry \in 1..MaxRetries
    /\ Idle
    /\ smart = FALSE
    /\ connections = PlainConnections
    /\ NothingPublished

\* prepare returns and process raises a ProcessingException, every time
NextRetry ==
    \/ \E m \in RetryMessages : FirstDelivery(m)
    \/ Redeliver
    \/ ReturnRetry
    \/ TypeFilterPass
    \/ PoisonFilter
    \/ CallPrepare
    \/ pc = "prepare" /\ UserReturn
    \/ CallProcess
    \/ \E e \in Metrics :
          pc = "process" /\ UserRaise(Exc("ProcessingException", e))
    \/ Except
    \/ Finally

SpecRetry == InitRetry /\ [][NextRetry]_vars

(* ---- executions that overlap on one consumer ---- *)
\* a frame of execute: its local message_in and the point it has reached.
\* The consumer's fields _message, _finished, _message_body and _measurement
\* are not in the frame: every frame reads and writes the same ones
RunMessage(r) ==
    CHOOSE m \in Messages :
        /\ m.exchange = (IF r = "A" THEN "ex1" ELSE "ex2")
        /\ m.properties.type = None
        /\ m.properties.headers = EmptyDict

\* the IOLoop is single-threaded: a frame runs only while no other does
Running(r) == runs[r].pc \in {"prepare", "process", "finally"}
Suspended(r) == runs[r].pc \in {"prepare_yield", "process_yield"}
NoneRunning == \A r \in Runs : ~Running(r)

\* what a frame leaves alone
OutsideRuns ==
    <<config, tags, pc, in_coroutine, raised, returning, escaping, outcome,
      escaped, delivered, prepare_state, process_state, finish_calls,
      on_finish_calls, user_finish_calls, finished_in_prepare, published,
      sentry, publishing, decode_calls, last_read, last_stat, state,
      state_start, last_set, retry, previous>>

\* execute(message_in, measurement) up to the call of prepare
ExecuteRun(r) ==
    /\ NoneRunning
    /\ runs[r].pc = "idle"
    /\ finished' = FALSE
    /\ message' = RunMessage(r)
    /\ message_body' = ClearedBody(message_body)
    /\ measurement' = Measurement
    /\ runs' = [runs EXCEPT ![r] =
                  [IdleRun EXCEPT !.pc = "prepare",
                                  !.message_in = RunMessage(r)]]
    /\ UNCHANGED OutsideRuns

\* "if not self._finished: result = self.process()" after prepare
EnterProcess(f) ==
    IF AfterPrepare(finished) = "call_process"
    THEN [f EXCEPT !.pc = "process", !.process_calls = @ + 1]
    ELSE [f EXCEPT !.pc = "finally"]

\* prepare or process returns a future: execute yields it
SuspendRun(r) ==
    /\ runs[r].pc \in {"prepare", "process"}
    /\ runs' = [runs EXCEPT ![r].pc =
                  IF @ = "prepare" THEN "prepare_yield" ELSE "process_yield"]
    /\ UNCHANGED <<OutsideRuns, finished, message, message_body, measurement>>

\* the future resolves and the frame runs on, with the fields the consumer
\* holds by now
ResumeRun(r) ==
    /\ NoneRunning
    /\ Suspended(r)
    /\ LET f == [runs[r] EXCEPT !.resumed = TRUE,
                                !.seen_message = message,
                                !.seen_finished = finished]
       IN runs' = [runs EXCEPT ![r] =
                     IF runs[r].pc = "prepare_yield"
                     THEN EnterProcess(f)
                     ELSE [f EXCEPT !.pc = "finally"]]
    /\ UNCHANGED <<OutsideRuns, finished, message, message_body, measurement>>

\* prepare or process returns a plain value
ReturnsRun(r) ==
    /\ runs[r].pc \in {"prepare", "process"}
    /\ runs' = [runs EXCEPT ![r] =
                  IF runs[r].pc = "prepare"
                  THEN EnterProcess(runs[r])
                  ELSE [runs[r] EXCEPT !.pc = "finally"]]
    /\ UNCHANGED <<OutsideRuns, finished, message, message_body, measurement>>

\* the finally clause and the return of MESSAGE_ACK
FinallyRun(r) ==
    /\ runs[r].pc = "finally"
    /\ finished' = (finished \/ FinallyFinishes(finished))
    /\ runs' = [runs EXCEPT ![r] =
                  [runs[r] EXCEPT
                     !.pc = "done",
                     !.own_finished = FinallyFinishes(finished),
                     !.on_finish_calls =
                        IF FinallyFinishes(finished) /\ FinishRunsHook(finished)
                        THEN @ + 1 ELSE @,
                     !.outcome = MESSAGE_ACK]]
    /\ UNCHANGED <<OutsideRuns, message, message_body, measurement>>

\* the caller takes the result of the frame
ReturnRun(r) ==
    /\ runs[r].pc = "done"
    /\ runs' = [runs EXCEPT ![r] = IdleRun]
    /\ UNCHANGED <<OutsideRuns, finished, message, message_body, measurement>>

NextOverlap ==
    \E r \in Runs :
        \/ ExecuteRun(r)
        \/ SuspendRun(r)
        \/ ResumeRun(r)
        \/ ReturnsRun(r)
        \/ FinallyRun(r)
        \/ ReturnRun(r)

SpecOverlap == InitState /\ [][NextOverlap]_vars

(* ---- a consumer whose connections may be down ---- *)
\* each connection up or down, its channel open or closed
BrokerConnections ==
    [ConnectionNames ->
        {[publisher_confirmations |-> TRUE, is_connected |-> u,
          channel_is_closed |-> c] : u, c \in BOOLEAN}]

InitBroker ==
    /\ Unfiltered
    /\ Idle
    /\ smart = FALSE
    /\ connections \in BrokerConnections
    /\ NothingPublished

\* publish_message on the connection of the message, on a named one, or on
\* one the consumer does not have
BrokerCalls ==
    {KeywordCall("ex", "rk", NoProperties, TextBody, c) :
        c \in ConnectionArgs \cup {"c3"}}

NextBroker ==
    \/ \E m \in ReplyMessages :
          /\ m.properties.reply_to = None
          /\ m.properties.message_id = None
          /\ Execute(m)
          /\ UNCHANGED other
    \/ TypeFilterPass
    \/ PoisonFilter
    \/ CallPrepare
    \/ CallProcess
    \/ \E call \in BrokerCalls : UserPublish(call)
    \/ \E call \in BrokerCalls : UserPublishEscapes(call)
    \/ UserReturn
    \/ \E k \in {"ProcessingException", "RabbitMQException"} :
          UserRaise(Exc(k, None))
    \/ Except
    \/ Finally
    \/ ClearAndAck

SpecBroker == InitBroker /\ [][NextBroker]_vars

(* ---- a SmartConsumer that decodes its messages and encodes what it ---- *)
(* ---- publishes                                                      ---- *)
\* content types: unset, registered and enabled, registered and disabled,
\* an ignore type, a type the registry does not have
WireTypes ==
    {None, "application/json", "text/csv", "text/yaml", "application/msgpack",
     "text/plain", "application/x-other"}

\* content encodings: unset, in _CODEC_MAP, not in _CODEC_MAP
WireEncodings == {None, "gzip", "bzip2", "deflate"}

WireProperties ==
    {[NoProperties EXCEPT !.content_type = ct, !.content_encoding = ce] :
        ct \in WireTypes, ce \in WireEncodings}

\* structured values: a mapping or a list of rows, with entries or empty
Values == {StructuredBody, [StructuredBody EXCEPT !.data = EMPTY]}

\* the delivery of a message published with properties p and the bytes wire
Delivery(p, wire) ==
    [exchange |-> "ex1", routing_key |-> "rk1", body |-> wire,
     connection |-> "c1",
     properties |-> [type |-> None, headers |-> EmptyDict, reply_to |-> None,
                     message_id |-> None, content_type |-> p.content_type,
                     content_encoding |-> p.content_encoding]]

\* what is delivered: the bytes a SmartConsumer published for a structured
\* value under the same properties, or bytes that are not in the declared
\* form (b'' among them)
CodecMessages ==
    {Delivery(p, SmartBody(p, v, None, None).body) :
        <<p, v>> \in {x \in WireProperties \X Values :
                        /\ SmartBody(x[1], x[2], None, None).raised = None
                        /\ SmartBody(x[1], x[2], None, None).body.is_string}}
    \cup {Delivery(p, RawBody(d)) : p \in WireProperties, d \in {"body1", EMPTY}}

\* publish_message calls: a str or a structured value under each pair of
\* content type and content encoding
CodecCalls ==
    {KeywordCall("ex", "rk", p, b, None) :
        b \in {TextBody, StructuredBody}, p \in WireProperties}

InitCodec ==
    /\ Unfiltered
    /\ Idle
    /\ smart = TRUE
    /\ connections = PlainConnections
    /\ NothingPublished

NextCodec ==
    \/ \E m \in CodecMessages : Execute(m) /\ UNCHANGED other
    \/ TypeFilterPass
    \/ PoisonFilter
    \/ CallPrepare
    \/ CallProcess
    \/ ReadBody
    \/ \E call \in CodecCalls : pc = "process" /\ UserPublish(call)
    \/ \E call \in CodecCalls : pc = "process" /\ UserPublishEscapes(call)
    \/ UserReturn
    \/ Except
    \/ Finally
    \/ ClearAndAck

SpecCodec == InitCodec /\ [][NextCodec]_vars

(* ---- a SmartConsumer that executes one message after the other ---- *)
\* execute for the next delivery; previous keeps what the consumer held
\* when execute was entered
ExecuteNext(m) ==
    /\ Execute(m)
    /\ previous' = [executed |-> measurement.exists, finished |-> finished,
                    message_body |-> message_body]
    /\ UNCHANGED <<state, state_start, last_set, runs, retry>>

\* a JSON message, a gzip-compressed YAML message and one of plain bytes
ResetMessages ==
    {m \in CodecMessages :
        \/ /\ m.properties.content_type = "application/json"
           /\ m.properties.content_encoding = None
           /\ m.body.serialized = "application/json"
           /\ m.body.data = "reply"
        \/ /\ m.properties.content_type = "text/yaml"
           /\ m.properties.content_encoding = "gzip"
           /\ m.body.compressed = "zlib"
           /\ m.body.data = EMPTY
        \/ /\ m.properties.content_type = None
           /\ m.properties.content_encoding = None
           /\ m.body.data = "body1"}

NextReset ==
    \/ \E m \in ResetMessages : ExecuteNext(m)
    \/ ReturnToCaller /\ UNCHANGED other
    \/ TypeFilterPass
    \/ PoisonFilter
    \/ CallPrepare
    \/ CallProcess
    \/ ReadBody
    \/ UserFinish
    \/ UserReturn
    \/ UserRaise(Exc("ProcessingException", None))
    \/ Except
    \/ Finally
    \/ ClearAndAck

SpecReset == InitCodec /\ [][NextReset]_vars

(* ======================================================================= *)
(* Properties                                                              *)
(* ======================================================================= *)

\* execute has completed by returning an Outcome
Returned == pc = "done" /\ escaped = None

\* an accepted type is configured
Configured == message_type.types # {}

\* the delivered message's type is one of the accepted types
Matches == delivered.properties.type \in message_type.types

\* the type filter stops the delivered message
StoppedByTypeFilter == pc # "idle" /\ Configured /\ ~Matches

HasCounter == PROCESSING_EXCEPTIONS \in DOMAIN delivered.properties.headers
Counter == delivered.properties.headers[PROCESSING_EXCEPTIONS]

\* the delivered message is a poison message: past the type filter, with a
\* numeric retry counter at or above the configured maximum
Poisoned ==
    /\ pc # "idle"
    /\ ~StoppedByTypeFilter
    /\ error_max_retry >= 1
    /\ HasCounter
    /\ Counter.kind # "str"
    /\ Counter.num >= error_max_retry * Counter.den

\* a retry counter the poison check cannot compare with the maximum
Incomparable ==
    /\ pc # "idle"
    /\ ~StoppedByTypeFilter
    /\ error_max_retry >= 1
    /\ HasCounter
    /\ Counter.kind = "str"

\* both filters let the delivered message through
PassesFilters ==
    pc # "idle" /\ ~StoppedByTypeFilter /\ ~Poisoned /\ ~Incomparable

UserCodeInvoked == prepare_state # "not_called" \/ process_state # "not_called"

\* the publishes of this execution to exchange x
PublishesTo(x) == {i \in DOMAIN published : published[i].exchange = x}

(* C1: whatever prepare, process, on_finish or a republish does, execute     *)
(* completes by returning one of the eight Outcome values; no exception      *)
(* propagates out of it.                                                     *)
C1_ExecuteReturnsOutcome ==
    pc = "done" => escaped = None /\ outcome \in Outcomes

(* C2, as stated: on every path through execute, on_finish has been invoked  *)
(* exactly once when the execution completes.                                *)
C2_FinishOnEveryPath ==
    pc = "done" => on_finish_calls = 1

(* C2, amended: on_finish is invoked exactly once in every execution of a    *)
(* message the type and poison filters let through, whatever prepare and     *)
(* process do, and not at all for a message stopped at a filter; it never    *)
(* runs twice.                                                               *)
C2_FinishOncePastFilters ==
    /\ on_finish_calls <= 1
    /\ pc = "done" => on_finish_calls = IF PassesFilters THEN 1 ELSE 0

C2_Witness ==
    /\ pc = "done"
    /\ PassesFilters
    /\ raised.kind = "MessageException"
    /\ process_state = "raised"
    /\ on_finish_calls = 1

\* the taxonomy table
Taxonomy(k) ==
    CASE k = "ConfigurationException" -> "CONFIGURATION_EXCEPTION"
      [] k = "ConsumerException" -> "CONSUMER_EXCEPTION"
      [] k = "MessageException" -> "MESSAGE_EXCEPTION"
      [] k = "ProcessingException" -> "PROCESSING_EXCEPTION"
      [] k = "RabbitMQException" -> "BROKER_EXCEPTION"
      [] k = "NotImplementedError" -> "UNHANDLED_EXCEPTION"
      [] k = None -> "ACK"
      [] OTHER -> "UNHANDLED_EXCEPTION"

(* C3: the Outcome execute returns for a message that reached user code is   *)
(* the one the taxonomy table gives for the kind of exception prepare or     *)
(* process raised, and ACK when neither raised.                              *)
C3_OutcomeFollowsTaxonomy ==
    Returned /\ UserCodeInvoked => outcome = Taxonomy(raised.kind)

C3_Witness ==
    /\ Returned
    /\ raised.kind = "RabbitMQException"
    /\ prepare_state = "raised"
    /\ outcome = "BROKER_EXCEPTION"

(* C4: with a maximum N configured, a message whose retry counter is N or    *)
(* more never reaches prepare or process and the Outcome returned for it is  *)
(* DROP; a message whose counter is below N (N-1 included), or that has no   *)
(* counter header, is let through by the check and reaches user code.        *)
C4_PoisonBoundary ==
    /\ Poisoned =>
         /\ ~UserCodeInvoked
         /\ pc \in {"type_filter", "poison_filter", "done"}
         /\ Returned => outcome = MESSAGE_DROP
         /\ pc = "done" /\ drop_exchange = None => Returned
    /\ /\ pc = "done"
       /\ ~StoppedByTypeFilter
       /\ error_max_retry >= 1
       /\ \/ ~HasCounter
          \/ /\ Counter.kind = "int"
             /\ Counter.num < error_max_retry
       => prepare_state # "not_called"

C4_Witness ==
    /\ Returned
    /\ error_max_retry >= 1
    /\ HasCounter
    /\ Counter = IntVal(error_max_retry)
    /\ outcome = MESSAGE_DROP
    /\ ~UserCodeInvoked

C6_PrepareBeforeProcess ==
    /\ process_state # "not_called" =>
         prepare_state = "completed" /\ ~finished_in_prepare
    /\ pc \in {"call_prepare", "prepare", "prepare_yield"} =>
         process_state = "not_called"

C6_Witness ==
    /\ Returned
    /\ finished_in_prepare
    /\ prepare_state = "completed"
    /\ process_state = "not_called"
    /\ outcome = MESSAGE_ACK

(* C7: an execution that returns PROCESSING_EXCEPTION has published exactly  *)
(* once to the error exchange, and an execution that returns any other       *)
(* Outcome has not published to it.                                          *)
C7_RepublishOnlyOnProcessingError ==
    Returned =>
        Cardinality(PublishesTo(ERROR_EXCHANGE)) =
            IF outcome = PROCESSING_EXCEPTION THEN 1 ELSE 0

C7_Witness ==
    /\ Returned
    /\ outcome = PROCESSING_EXCEPTION
    /\ Cardinality(PublishesTo(ERROR_EXCHANGE)) = 1

(* C8: the processing-error republish goes to the error exchange with the    *)
(* routing key and body of the delivered message, and its retry counter is   *)
(* the delivered integer counter plus one, or 1 when the delivered message   *)
(* has no counter header.                                                    *)
C8_CounterIncremented ==
    \A i \in PublishesTo(ERROR_EXCHANGE) :
        LET p == published[i]
        IN /\ p.routing_key = delivered.routing_key
           /\ p.body = delivered.body
           /\ PROCESSING_EXCEPTIONS \in DOMAIN p.properties.headers
           /\ ~HasCounter =>
                p.properties.headers[PROCESSING_EXCEPTIONS] = IntVal(1)
           /\ HasCounter /\ Counter.kind = "int" =>
                p.properties.headers[PROCESSING_EXCEPTIONS] = IntVal(Counter.num + 1)

C8_Witness ==
    /\ HasCounter
    /\ Counter = IntVal(3)
    /\ \E i \in PublishesTo(ERROR_EXCHANGE) :
          published[i].properties.headers[PROCESSING_EXCEPTIONS] = IntVal(4)

(* C9, as stated: a delivered retry counter that is not a valid integer, a   *)
(* numeric string or a non-integral number, is republished as 1.             *)
C9_NonIntegerResetToOne ==
    \A i \in PublishesTo(ERROR_EXCHANGE) :
        HasCounter /\ Counter.kind \in {"str", "float"} =>
            published[i].properties.headers[PROCESSING_EXCEPTIONS] = IntVal(1)

(* C9, amended: a delivered retry counter to which 1 cannot be added, such   *)
(* as a numeric string, is republished as 1; a non-integral number is        *)
(* republished incremented by one.                                           *)
C9_UnaddableResetToOne ==
    \A i \in PublishesTo(ERROR_EXCHANGE) :
        LET c == published[i].properties.headers[PROCESSING_EXCEPTIONS]
        IN /\ HasCounter /\ Counter.kind = "str" => c = IntVal(1)
           /\ HasCounter /\ Counter.kind = "float" =>
                c = FloatVal(Counter.num + Counter.den, Counter.den)

C9_Witness ==
    /\ HasCounter
    /\ Counter = StrVal(3)
    /\ \E i \in PublishesTo(ERROR_EXCHANGE) :
          published[i].properties.headers[PROCESSING_EXCEPTIONS] = IntVal(1)

DiagnosticHeaders ==
    {X_DROPPED_BY, X_DROPPED_REASON, X_DROPPED_TIMESTAMP, X_ORIGINAL_EXCHANGE}

(* C10: a drop republish goes to the drop exchange with the routing key,     *)
(* body and properties of the delivered message, every delivered header      *)
(* kept, and the four diagnostic headers added: the consumer's name, the     *)
(* reason of the drop, a timestamp and the exchange the message came from.   *)
C10_DropRepublish ==
    \A i \in DOMAIN published :
        LET p == published[i]
            h == p.properties.headers
            h0 == delivered.properties.headers
        IN p.exchange # ERROR_EXCHANGE =>
            /\ drop_exchange # None
            /\ p.exchange = drop_exchange
            /\ p.routing_key = delivered.routing_key
            /\ p.body = delivered.body
            /\ p.properties.type = delivered.properties.type
            /\ DOMAIN h = DOMAIN h0 \cup DiagnosticHeaders
            /\ \A k \in DOMAIN h0 \ DiagnosticHeaders : h[k] = h0[k]
            /\ h[X_DROPPED_BY] = Text(name)
            /\ h[X_ORIGINAL_EXCHANGE] = Text(delivered.exchange)
            /\ h[X_DROPPED_TIMESTAMP].kind = "iso"
            /\ StoppedByTypeFilter => h[X_DROPPED_REASON] = Text("invalid type")
            /\ ~StoppedByTypeFilter =>
                 h[X_DROPPED_REASON] = Format("max retries ({})", Counter)

C10_Witness ==
    /\ Returned
    /\ outcome = MESSAGE_DROP
    /\ Poisoned
    /\ Len(published) = 1
    /\ published[1].exchange = drop_exchange
    /\ X_ORIGINAL_EXCHANGE \in DOMAIN published[1].properties.headers


\* a message the engine drops: an invalid type with drop_invalid set, or a
\* poison message
Dropping == (StoppedByTypeFilter /\ drop_invalid) \/ Poisoned

(* C11: with no drop exchange configured, dropping a message, for an invalid *)
(* type with drop_invalid set or as a poison message, publishes nothing, and *)
(* execute returns DROP.                                                     *)
C11_DropWithoutExchange ==
    /\ Dropping /\ drop_exchange = None => published = <<>>
    /\ Dropping /\ drop_exchange = None /\ pc = "done" =>
         Returned /\ outcome = MESSAGE_DROP

C11_Witness ==
    /\ Dropping
    /\ StoppedByTypeFilter
    /\ drop_exchange = None
    /\ Returned
    /\ outcome = MESSAGE_DROP
    /\ published = <<>>

(* C12, as stated: every exception execute catches has been forwarded to the *)
(* error-reporting sink when the Outcome is returned.                        *)
C12_EveryExceptionReported ==
    Returned /\ raised.kind # None => sentry = 1

(* C12, amended: when the Outcome is returned, an exception execute caught   *)
(* has been forwarded to the sink once if it is a configuration error, a     *)
(* NotImplementedError or an error of no class of the taxonomy; consumer,    *)
(* message, processing and broker errors are logged without being           *)
(* forwarded, and a type-mismatch or poison drop forwards nothing.           *)
C12_UnexpectedExceptionsReported ==
    /\ Returned =>
         sentry = IF raised.kind \in
                        {"ConfigurationException", "NotImplementedError", "Exception"}
                  THEN 1 ELSE 0
    /\ pc = "finally" /\ returning \in {CONFIGURATION_EXCEPTION, UNHANDLED_EXCEPTION} =>
         sentry = 1
    /\ ~UserCodeInvoked => sentry = 0

C12_Witness ==
    /\ Returned
    /\ raised.kind = "Exception"
    /\ outcome = UNHANDLED_EXCEPTION
    /\ sentry = 1

(* C13: no operation of the engine changes the delivered message: the        *)
(* consumer's current message keeps the body, properties and headers it was  *)
(* delivered with, its retry counter included.                               *)
C13_InboundImmutable ==
    pc # "idle" => message = delivered

(* C14: when execute returns ACK, the pending confirmations of every        *)
(* connection the consumer knows have been cleared: no connection has a tag  *)
(* left in its map.                                                          *)
C14_ClearedBeforeAck ==
    Returned /\ outcome = MESSAGE_ACK =>
        \A c \in DOMAIN connections : pending[c] = {}

\* ACK after futures were pending on both connections
C14_Witness ==
    /\ Returned
    /\ outcome = MESSAGE_ACK
    /\ \A c \in DOMAIN connections :
         \E t \in DOMAIN futures[c] : futures[c][t] = "failed"

\* the last call was a publish_message that published
Published == last_call.fn = "publish_message" /\ last_call.result.raised = None

(* C15: publish_message returns a future, registered exactly once with the   *)
(* connection it published on, if and only if that connection has publisher  *)
(* confirmations enabled; otherwise it returns nothing and registers nothing.*)
C15_FutureIffConfirmations ==
    Published =>
        LET c == last_call.result.connection
        IN /\ last_call.result.future <=> connections[c].publisher_confirmations
           /\ delivery_tag[c] - last_call.before[c] =
                IF connections[c].publisher_confirmations THEN 1 ELSE 0
           /\ Len(futures[c]) = delivery_tag[c]
           /\ \A d \in ConnectionNames \ {c} :
                delivery_tag[d] = last_call.before[d]

C15_Witness ==
    /\ Published
    /\ last_call.result.future
    /\ last_call.result.connection = "c2"
    /\ delivery_tag["c2"] = last_call.before["c2"] + 1
    /\ delivery_tag["c2"] \in pending["c2"]

(* C16: a confirmation of tag n with multiple set resolves every future that *)
(* was pending with a tag of at most n, in ascending order of tag and with   *)
(* the same result, and leaves the futures above n pending; without multiple *)
(* it resolves the future of tag n alone.                                    *)
C16_ResolveUpToTag ==
    last_confirm.connection # None =>
        LET c == last_confirm.connection
            result == IF last_confirm.ack THEN "ack" ELSE "nack"
            expected == IF last_confirm.multiple
                        THEN {t \in last_confirm.before : t <= last_confirm.tag}
                        ELSE {last_confirm.tag}
            k == Cardinality(expected)
            tail == SubSeq(resolutions[c], Len(resolutions[c]) - k + 1,
                           Len(resolutions[c]))
        IN /\ \A t \in expected : futures[c][t] = result /\ t \notin pending[c]
           /\ \A t \in last_confirm.before \ expected :
                futures[c][t] = "pending" /\ t \in pending[c]
           /\ Len(resolutions[c]) >= k
           /\ {tail[i] : i \in 1..k} = expected
           /\ \A i, j \in 1..k : i < j => tail[i] < tail[j]

\* three publishes, then tag 2 confirmed with multiple
C16_Witness ==
    /\ last_confirm.connection = "c1"
    /\ last_confirm.before = {1, 2, 3}
    /\ last_confirm.tag = 2
    /\ last_confirm.multiple
    /\ futures["c1"] = <<"ack", "ack", "pending">>
    /\ pending["c1"] = {3}

Replied == last_call.fn = "rpc_reply"

(* C18: rpc_reply without an explicit reply_to, for a message that has no    *)
(* reply_to, raises ValueError before anything is published: no              *)
(* basic_publish is made and no confirmation future is registered.           *)
C18_MissingReplyToRaises ==
    /\ Replied
    /\ last_call.reply.reply_to = None
    /\ delivered.properties.reply_to = None
    => /\ last_call.result.raised = "ValueError"
       /\ last_call.result.connection = None
       /\ delivery_tag = last_call.before

C18_Witness ==
    /\ Replied
    /\ last_call.reply.reply_to = None
    /\ delivered.properties.reply_to = None
    /\ last_call.result.raised = "ValueError"
    /\ \E c \in ConnectionNames : delivery_tag[c] > 0
    /\ delivery_tag = last_call.before

\* the inbound message_id, the routing key and the properties of a reply that
\* was published
RepliedTo == Replied /\ last_call.result.raised = None

Unset(v) == v \in {None, EMPTY, EPOCH}

C20_ReplyPublishesLikePublishMessage ==
    Replied /\ ~ReplyToMissing(last_call.reply.reply_to,
                               delivered.properties.reply_to) =>
        last_call.result =
            PublishMessage(smart, connections, delivered,
                KeywordCall(Or(last_call.reply.exchange, delivered.exchange),
                            Or(last_call.reply.reply_to,
                               delivered.properties.reply_to),
                            RpcReplyProperties(last_call.reply.properties,
                                               delivered),
                            last_call.reply.body,
                            last_call.reply.connection))

\* the same, for a Consumer that is not a SmartConsumer
C20_ConsumerOnly == ~smart => C20_ReplyPublishesLikePublishMessage

PublishedHeaders(i) == DOMAIN published[i].properties.headers

C27_OutOfBandStatsDropped ==
    /\ last_stat.fn # None /\ ~last_stat.during => ~last_stat.recorded
    /\ \A v \in measurement.values : v.during

\* the body has been read by the callback
BodyRead == smart /\ decode_calls.reads > 0

\* the content type and content encoding the delivered message declares
DeclaredType == delivered.properties.content_type
DeclaredEncoding == delivered.properties.content_encoding

(***************************************************************************)
(* C21: the decoded body is memoized per message: however often body is    *)
(* read during one execution, and whatever the decoded value is (an empty  *)
(* mapping, an empty list, 0 and empty bytes included), decompression and  *)
(* the deserialization codec are invoked at most once and every read       *)
(* returns the cached value.                                               *)
(***************************************************************************)
C21_DecodedOnce ==
    BodyRead /\ last_read.raised = None =>
        /\ decode_calls.decompress <= 1
        /\ decode_calls.load <= 1
        /\ last_read.value = message_body

(***************************************************************************)
(* C22, as stated: a structured value published by a SmartConsumer under a *)
(* supported content type (JSON, CSV, YAML) and content encoding (gzip,    *)
(* bzip2) and read back through body from a message with the published     *)
(* bytes and the same properties equals the original value.                *)
(***************************************************************************)
RoundTripTypes == {"application/json", "text/csv", "text/yaml"}
RoundTripEncodings == {"gzip", "bzip2"}

\* the delivered message carries what publish_message made of value v
\* under properties p
Carries(p, v) ==
    /\ SmartBody(p, v, None, None).raised = None
    /\ delivered = Delivery(p, SmartBody(p, v, None, None).body)

C23_RawBodyUnchanged ==
    /\ BodyRead
    /\ ~TruthyValue(DeclaredEncoding)
    /\ \/ ~TruthyValue(DeclaredType)
       \/ DeclaredType \in IGNORE_TYPES
       \/ DeclaredType \notin SERIALIZATION_MAP
    => /\ last_read.raised = None
       /\ last_read.value = delivered.body
       /\ decode_calls.decompress = 0
       /\ decode_calls.load = 0

C23_Witness ==
    /\ BodyRead
    /\ DeclaredEncoding = None
    /\ DeclaredType = "application/x-other"
    /\ delivered.body = RawBody("body1")
    /\ last_read.value = RawBody("body1")
    /\ decode_calls.reads = 2

\* publish_message has been called with a structured body to serialize
\* under content type ct
Serializing(ct) ==
    /\ smart
    /\ last_call.fn = "publish_message"
    /\ ~TruthyValue(last_call.call.no_serialization)
    /\ ~last_call.call.body.is_string
    /\ last_call.call.properties.content_type = ct

\* the last call published nothing: no basic_publish, no future registered
NothingSent ==
    /\ last_call.result.connection = None
    /\ ~last_call.result.future
    /\ delivery_tag = last_call.before

(***************************************************************************)
(* C24, as stated: publishing a structured body under a content type that  *)
(* is not in the registry or is disabled raises a configuration error and  *)
(* publishes nothing; if the error escapes process, the Outcome is         *)
(* CONFIGURATION_EXCEPTION.                                                *)
(***************************************************************************)
C24_ConfigurationError ==
    \A ct \in WireTypes \ {None} :
        Serializing(ct) /\ (ct \notin SERIALIZATION_MAP \/ ~Enabled(ct)) =>
            /\ last_call.result.raised = "ConfigurationException"
            /\ NothingSent
            /\ last_call.propagated /\ Returned =>
                  outcome = CONFIGURATION_EXCEPTION

(***************************************************************************)
(* C24, amended: publishing a structured body under a content type that is *)
(* not in the registry or is disabled raises ValueError and publishes      *)
(* nothing; if the error escapes process, the catch-all clause of execute  *)
(* handles it and the Outcome is UNHANDLED_EXCEPTION.                      *)
(***************************************************************************)
C24_ValueError ==
    \A ct \in WireTypes \ {None} :
        Serializing(ct) /\ (ct \notin SERIALIZATION_MAP \/ ~Enabled(ct)) =>
            /\ last_call.result.raised = "ValueError"
            /\ NothingSent
            /\ last_call.propagated /\ Returned =>
                  outcome = UNHANDLED_EXCEPTION

C24_Witness ==
    /\ Serializing("application/x-other")
    /\ last_call.result.raised = "ValueError"
    /\ last_call.propagated
    /\ Returned
    /\ outcome = UNHANDLED_EXCEPTION

(***************************************************************************)
(* C25: publishing with a declared content encoding: a known codec (gzip,  *)
(* bzip2) compresses the serialized body; an unknown content encoding      *)
(* raises an error and the message is not published.                       *)
(***************************************************************************)
C25_CompressesOrRaises ==
    /\ smart
    /\ last_call.fn = "publish_message"
    /\ ~TruthyValue(last_call.call.no_encoding)
    /\ TruthyValue(last_call.call.properties.content_encoding)
    => LET encoding == last_call.call.properties.content_encoding
       IN IF encoding \in DOMAIN CODEC_MAP
          THEN last_call.result.raised = None =>
                 /\ last_call.result.body.compressed = CODEC_MAP[encoding]
                 /\ last_call.call.body.is_string
                      \/ last_call.result.body.serialized # None
          ELSE last_call.result.raised # None /\ NothingSent

(***************************************************************************)
(* C26, as stated: a content type whose registry entry is disabled is      *)
(* never silently bypassed: reading the body of a message that declares it *)
(* fails, and publishing a structured body that declares it fails.         *)
(***************************************************************************)
C26_DisabledFails ==
    \A ct \in WireTypes \cap SERIALIZATION_MAP :
        ~Enabled(ct) =>
            /\ BodyRead /\ DeclaredType = ct => last_read.raised # None
            /\ Serializing(ct) =>
                  last_call.result.raised # None /\ NothingSent

(***************************************************************************)
(* C26, amended: publishing a structured body that declares a disabled     *)
(* content type fails with ValueError and publishes nothing; reading the   *)
(* body of a message that declares a disabled content type does not fail:  *)
(* it returns the bytes of the message, decompressed if the content        *)
(* encoding is a known codec, without deserializing them.                  *)
(***************************************************************************)
C26_DisabledFailsOutbound ==
    \A ct \in WireTypes \cap SERIALIZATION_MAP :
        ~Enabled(ct) =>
            /\ BodyRead /\ DeclaredType = ct /\ last_read.raised = None =>
                  /\ decode_calls.load = 0
                  /\ last_read.value = [delivered.body EXCEPT !.compressed = None]
            /\ BodyRead /\ DeclaredType = ct
                  /\ ~TruthyValue(DeclaredEncoding) => last_read.raised = None
            /\ Serializing(ct) =>
                  last_call.result.raised = "ValueError" /\ NothingSent

C26_Witness ==
    /\ BodyRead
    /\ DeclaredType = "application/msgpack"
    /\ DeclaredEncoding = None
    /\ last_read.raised = None
    /\ last_read.value = RawBody("body1")
    /\ Serializing("application/msgpack")
    /\ last_call.result.raised = "ValueError"

\* the connection the last publish_message call names: channel, connection
\* or that of the message
Target ==
    Or(Or(last_call.call.channel, last_call.call.connection),
       delivered.connection)

(***************************************************************************)
(* C30: publish_message makes no basic_publish on a connection that is not *)
(* connected or whose channel is closed: it raises RabbitMQException       *)
(* before publishing; for a connection name the consumer does not know it  *)
(* raises ValueError. A RabbitMQException that escapes prepare or process  *)
(* gives the broker-exception Outcome and no republish.                    *)
(***************************************************************************)
C30_NoPublishWhenDown ==
    last_call.fn = "publish_message" =>
        /\ Target \notin DOMAIN connections =>
              last_call.result.raised = "ValueError" /\ NothingSent
        /\ Target \in DOMAIN connections =>
              IF \/ ~connections[Target].is_connected
                 \/ connections[Target].channel_is_closed
              THEN last_call.result.raised = "RabbitMQException" /\ NothingSent
              ELSE last_call.result.raised = None
        /\ /\ last_call.result.raised = "RabbitMQException"
           /\ last_call.propagated
           /\ Returned
           => /\ outcome = RABBITMQ_EXCEPTION
              /\ Taxonomy(raised.kind) = "BROKER_EXCEPTION"
              /\ published = <<>>

C30_Witness ==
    /\ last_call.fn = "publish_message"
    /\ Target = "c2"
    /\ connections["c2"].is_connected
    /\ connections["c2"].channel_is_closed
    /\ last_call.result.raised = "RabbitMQException"
    /\ last_call.propagated
    /\ Returned
    /\ outcome = RABBITMQ_EXCEPTION

(***************************************************************************)
(* C39: the state is Initializing after construction; set_state with a     *)
(* value outside the eight states raises ValueError and leaves the state   *)
(* and its start time as they were; set_state with one of the eight states *)
(* succeeds from any state; so the state is always one of the eight, and   *)
(* is_running holds exactly in Idle, Active and Sleeping.                  *)
(***************************************************************************)
C39_StateTracker ==
    /\ last_set = NoSet => state = 1 /\ STATES[state] = "Initializing"
    /\ state \in 1..8
    /\ last_set # NoSet =>
          IF last_set.new_state \in 1..8
          THEN last_set.raised = None /\ state = last_set.new_state
          ELSE /\ last_set.raised = "ValueError"
               /\ state = last_set.state
               /\ state_start = last_set.state_start
    /\ is_running(state) <=> STATES[state] \in {"Idle", "Active", "Sleeping"}

C39_Witness ==
    /\ last_set.new_state = 9
    /\ last_set.raised = "ValueError"
    /\ last_set.state = 5
    /\ state = 5
    /\ state_start = 2
    /\ is_running(state)

\* the delivered message carries a numeric retry counter at or above the
\* configured maximum
CounterAtMaximum ==
    /\ error_max_retry >= 1
    /\ HasCounter
    /\ Counter.kind # "str"
    /\ Counter.num >= error_max_retry * Counter.den

C38_AckOnlyWhenClean ==
    /\ Returned /\ outcome = MESSAGE_ACK =>
          /\ ~StoppedByTypeFilter
          /\ ~CounterAtMaximum
          /\ raised.kind = None
          /\ prepare_state = "completed"
          /\ process_state \in {"completed", "not_called"}
          /\ published = <<>>
    /\ Returned /\ finished_in_prepare /\ raised.kind = None =>
          outcome = MESSAGE_ACK /\ process_state = "not_called"

C38_Witness ==
    /\ Returned
    /\ outcome = MESSAGE_ACK
    /\ finished_in_prepare
    /\ process_state = "not_called"
    /\ HasCounter
    /\ published = <<>>

(***************************************************************************)
(* C36: when execute returns any Outcome (ACK, DROP or one of the          *)
(* exception Outcomes), no confirmation future registered by a publish     *)
(* during that execution is still tracked on any connection.               *)
(***************************************************************************)
C36_NoLeakOnAnyPath ==
    Returned => \A c \in DOMAIN connections : pending[c] = {}

(***************************************************************************)
(* C31: the first read of body decompresses before it deserializes: with a *)
(* content encoding that is a known codec the raw bytes are decompressed   *)
(* and the deserialization is applied to the decompressed bytes; with an   *)
(* unknown content encoding the bytes are left as they are, without error, *)
(* and the deserialization the content type asks for is applied to them.   *)
(***************************************************************************)
C31_DecompressThenDeserialize ==
    BodyRead /\ decode_calls.reads = 1 =>
        LET known == DeclaredEncoding \in {"gzip", "bzip2", "zlib"}
            bytes == IF known
                     THEN Decompress(delivered.body, CODEC_MAP[DeclaredEncoding])
                     ELSE Ok(delivered.body)
            typed == /\ TruthyValue(DeclaredType)
                     /\ DeclaredType \in SERIALIZATION_MAP
                     /\ Enabled(DeclaredType)
            loaded == Load(bytes.body, DeclaredType)
        IN /\ decode_calls.decompress = IF known THEN 1 ELSE 0
           /\ bytes.raised # None =>
                 last_read.raised = bytes.raised /\ decode_calls.load = 0
           /\ bytes.raised = None /\ ~typed =>
                 /\ decode_calls.load = 0
                 /\ last_read.raised = None
                 /\ last_read.value = bytes.body
           /\ bytes.raised = None /\ typed =>
                 /\ decode_calls.load = 1
                 /\ last_read.raised = loaded.raised
                 /\ loaded.raised = None => last_read.value = loaded.body

C31_Witness ==
    /\ BodyRead
    /\ decode_calls = [NoDecodeCalls EXCEPT !.reads = 1, !.decompress = 1,
                                            !.load = 1]
    /\ DeclaredEncoding = "gzip"
    /\ DeclaredType = "application/json"
    /\ delivered.body.compressed = "zlib"
    /\ last_read.raised = None
    /\ last_read.value = StructuredBody

(***************************************************************************)
(* C33: a failed decode is not masked: once a read of body has raised a    *)
(* message-level error (the bytes were decompressed but could not be       *)
(* decoded or deserialized), every later read of body for the same message *)
(* raises as well; none returns the decompressed or raw bytes.             *)
(***************************************************************************)
C33_FailedDecodeStaysFailed ==
    BodyRead /\ decode_calls.failed => last_read.raised = "MessageException"

(***************************************************************************)
(* C34: per-message state is reset at the start of every execute: whatever *)
(* the executions before it did, a new execution starts with finished      *)
(* false and an empty decoded-body cache; so body never returns a value    *)
(* decoded from an earlier message, and a finish() made for an earlier     *)
(* message suppresses neither process nor on_finish of the next one.       *)
(***************************************************************************)
C34_ResetAtExecute ==
    /\ pc = "type_filter" => ~finished /\ message_body = NoBody
    /\ BodyRead /\ pc # "idle" /\ decode_calls.reads = 1 =>
          LET d == MaybeDecompress(delivered)
              r == MaybeDeserialize(delivered, d.body)
          IN /\ last_read.raised = IF d.raised # None THEN d.raised ELSE r.raised
             /\ last_read.raised = None => last_read.value = r.body
    /\ previous.finished /\ Returned /\ raised.kind = None
          /\ ~finished_in_prepare =>
          process_state = "completed" /\ on_finish_calls = 1
    /\ previous.finished /\ Returned => on_finish_calls = 1

C34_Witness ==
    /\ pc = "type_filter"
    /\ previous.executed
    /\ previous.finished
    /\ TruthyBody(previous.message_body)
    /\ previous.message_body # delivered.body
    /\ ~finished
    /\ message_body = NoBody

(***************************************************************************)
(* C32: with error_max_retry = N >= 1 and an error exchange that           *)
(* redelivers what is republished to it, a message whose process always    *)
(* raises ProcessingException has its counter raised by exactly one per    *)
(* cycle, user code is invoked for it at most N times, and the delivery    *)
(* that carries counter N is dropped without user code being invoked and   *)
(* without another republish to the error exchange.                        *)
(***************************************************************************)
C32_RetryBound ==
    /\ \A i \in 1..(Len(retry.counters) - 1) :
          LET a == retry.counters[i]
              b == retry.counters[i + 1]
          IN IF a.kind = "absent"
             THEN b = IntVal(1)
             ELSE b.kind = a.kind /\ b.den = a.den /\ b.num = a.num + a.den
    /\ retry.invoked + (IF pc # "idle" /\ Invoked THEN 1 ELSE 0)
          <= error_max_retry
    /\ Returned /\ CounterOf(delivered) = IntVal(error_max_retry) =>
          /\ outcome = MESSAGE_DROP
          /\ ~Invoked
          /\ ToErrorExchange(published) = <<>>
    /\ Len(retry.queued) <= 1
    /\ retry.cycles <= error_max_retry + 1

C32_Witness ==
    /\ Returned
    /\ retry.cycles = error_max_retry + 1
    /\ retry.counters[1] = Absent
    /\ retry.invoked = error_max_retry
    /\ error_max_retry > 1
    /\ CounterOf(delivered) = IntVal(error_max_retry)
    /\ outcome = MESSAGE_DROP

(***************************************************************************)
(* C35: executions that overlap on one consumer do not corrupt each other: *)
(* a frame that resumes after a suspension finds the message it was called *)
(* with and a finished flag no other frame has set, and every frame that   *)
(* returns has run process once and on_finish once and returns the Outcome *)
(* of its own message.                                                     *)
(***************************************************************************)
C35_NoCorruption ==
    \A r \in Runs :
        /\ runs[r].resumed =>
              /\ runs[r].seen_message = runs[r].message_in
              /\ ~runs[r].seen_finished
        /\ runs[r].pc = "done" =>
              /\ runs[r].process_calls = 1
              /\ runs[r].on_finish_calls = 1
              /\ runs[r].outcome = MESSAGE_ACK

====
